---- MODULE Spec2Model ----
(***************************************************************************)
(* Avatar synchronization controller of hammurabi-headless                 *)
(* (createAvatarCommunicationSystem in communications/scene-comms.ts):     *)
(* the entity allocation table, the four last-write-wins component stores, *)
(* the tombstone map, the tick counter, the profile cache, the profile     *)
(* fetches in flight and the per-subscriber cursors.                       *)
(*                                                                         *)
(* JavaScript runs each handler to completion, so every handler is one     *)
(* action.  The only suspension point is the await of the profile fetch:   *)
(* the part of handleProfileVersionAnnouncement before it belongs to the   *)
(* announcement's action, the part after it is the action FetchComplete.   *)
(***************************************************************************)
EXTENDS Integers, Sequences, FiniteSets, TLC

(***************************************************************************)
(* Bounds of the model.                                                    *)
(***************************************************************************)
\* update() is not called any more once currentTick has reached MaxTick
MaxTick == 1
\* no store accepts a write once its revision has reached MaxRevision
MaxRevision == 2
\* profile fetches in flight at one time
MaxFetches == 2
\* the deepest nesting of the metadata handed to signedFetch
MaxChain == 5
\* the values Date.now() takes
MaxTimestamp == 2
\* performance.now() goes no further than MaxClock
MaxClock == 2200
\* lateUpdate is not called any more after MaxCalls calls
MaxCalls == 4
\* setAvatar is not called any more once the version has reached MaxVersion
MaxVersion == 2

\* the boxes made for the entity, and the dispose() calls one box is followed for
MaxMeshes == 4

MaxDisposals == 2

(***************************************************************************)
(* Addresses are strings, modelled as sequences of characters so that      *)
(* lower-casing is computed, not assumed.                                  *)
(***************************************************************************)
RawAddresses == { <<"a", "1">>, <<"A", "1">>, <<"b", "2">> }

toLowerCaseChar(ch) ==
    CASE ch = "A" -> "a"
      [] ch = "B" -> "b"
      [] ch = "G" -> "g"
      [] ch = "O" -> "o"
      [] ch = "P" -> "p"
      [] ch = "S" -> "s"
      [] ch = "T" -> "t"
      [] OTHER    -> ch

toLowerCase(str) == [i \in DOMAIN str |-> toLowerCaseChar(str[i])]

normalizeAddress_Identity(address) == address

normalizeAddress(address) == toLowerCase(address)

\* the profile versions announced by peers and returned by the profile directory
ProfileVersions == 1 .. 2

\* the positions carried by position and movement packets
Positions == { "p1" }

(***************************************************************************)
(* JavaScript Map, as a function whose domain is the set of keys.          *)
(***************************************************************************)
EmptyMap == [k \in {} |-> 0]

MapHas(m, k) == k \in DOMAIN m

MapSet(m, k, v) == [x \in (DOMAIN m) \cup {k} |-> IF x = k THEN v ELSE m[x]]

MapDelete(m, k) == [x \in (DOMAIN m) \ {k} |-> m[x]]

RangeOf(m) == { m[k] : k \in DOMAIN m }

\* the elements of a finite set of integers in ascending order
RECURSIVE Ascending(_)
Ascending(S) ==
    IF S = {} THEN << >>
    ELSE LET lo == CHOOSE x \in S : \A y \in S : x <= y
         IN  <<lo>> \o Ascending(S \ {lo})

\* null of `Entity | null`
Null == 0

(***************************************************************************)
(* Entity allocator (playerEntityManager).  Remote peers get the ids of    *)
(* the range [32, 256); a peer is its lower-cased address.                 *)
(***************************************************************************)
RangeStart == 32
RangeEnd == 256

AllocatorKey(address) == toLowerCase(address)

getEntityForAddress(pem, address) ==
    IF MapHas(pem, AllocatorKey(address)) THEN pem[AllocatorKey(address)] ELSE Null

\* the lowest id of the range, from n on, that no address holds; Null when none
RECURSIVE FirstFreeFrom(_, _)
FirstFreeFrom(pem, n) ==
    IF n >= RangeEnd THEN Null
    ELSE IF n \notin RangeOf(pem) THEN n
    ELSE FirstFreeFrom(pem, n + 1)

NextFreeEntity_First(pem) == RangeStart

\* Null at once when every id of the range is held
NextFreeEntity(pem) ==
    IF (RangeStart .. (RangeEnd - 1)) \subseteq RangeOf(pem) THEN Null
    ELSE FirstFreeFrom(pem, RangeStart)

\* returns [entity, pem]
allocateEntityForPlayer(pem, address) ==
    IF MapHas(pem, AllocatorKey(address))
    THEN [entity |-> pem[AllocatorKey(address)], pem |-> pem]
    ELSE IF NextFreeEntity(pem) = Null
    THEN [entity |-> Null, pem |-> pem]
    ELSE [entity |-> NextFreeEntity(pem),
          pem    |-> MapSet(pem, AllocatorKey(address), NextFreeEntity(pem))]

freeEntityForPlayer(pem, address) == MapDelete(pem, AllocatorKey(address))

(***************************************************************************)
(* Component store (createLwwStore): per entity the current value and the  *)
(* revision of the write that installed it, the store's revision, the      *)
(* dirty set and the entities marked removed.                              *)
(***************************************************************************)
Components == <<"PlayerIdentityData", "AvatarBase", "AvatarEquippedData", "Transform">>

listOfComponentsToSynchronize == { Components[i] : i \in DOMAIN Components }

NewStore == [data |-> EmptyMap, rev |-> EmptyMap, revision |-> 0,
             dirty |-> {}, deleted |-> {}]

createOrReplace_NoBump(store, entity, value) ==
    [store EXCEPT !.data = MapSet(@, entity, value),
                  !.rev = MapSet(@, entity, store.revision),
                  !.dirty = @ \cup {entity},
                  !.deleted = @ \ {entity}]

createOrReplace(store, entity, value) ==
    [store EXCEPT !.data = MapSet(@, entity, value),
                  !.revision = @ + 1,
                  !.rev = MapSet(@, entity, store.revision + 1),
                  !.dirty = @ \cup {entity},
                  !.deleted = @ \ {entity}]

entityDeleted(store, entity, clearData) ==
    [store EXCEPT !.data = IF clearData THEN MapDelete(@, entity) ELSE @,
                  !.dirty = @ \cup {entity},
                  !.deleted = @ \cup {entity}]

\* commits the updates and cleans the dirty iterator; the revisions stay
dumpCrdtUpdates(store) == [store EXCEPT !.dirty = {}]

\* the record of one entity: its value, or the absence of one, and its revision
DeltaRecord(component, store, entity) ==
    IF MapHas(store.data, entity)
    THEN [kind |-> "PUT_COMPONENT", component |-> component, entityId |-> entity,
          revision |-> store.rev[entity], value |-> store.data[entity]]
    ELSE [kind |-> "DELETE_COMPONENT", component |-> component, entityId |-> entity,
          revision |-> store.rev[entity]]

\* the records of every entity whose revision exceeds sinceRevision
dumpCrdtDeltas(component, store, sinceRevision) ==
    LET changed == { e \in DOMAIN store.rev : store.rev[e] > sinceRevision }
        order   == Ascending(changed)
    IN  [records     |-> [i \in DOMAIN order |-> DeltaRecord(component, store, order[i])],
         newRevision |-> store.revision]

(***************************************************************************)
(* Profiles.  A profile of the directory service is reduced to the fields  *)
(* the controller reads: whose it is, its version, hasConnectedWeb3.  The  *)
(* appearance and the equipped items copied from it are represented by the *)
(* profile they were copied from.                                          *)
(***************************************************************************)
Profile(address, version) ==
    [userId |-> address, version |-> version, hasConnectedWeb3 |-> TRUE]

\* what `await fetchProfileFromCatalyst(address)` can resume with: a throw
\* (request error, response not ok), undefined (no avatar in the answer), or a
\* profile of any version: the directory is replicated and answers may lag or
\* overtake one another
FetchOutcomes ==
    { [threw |-> TRUE, defined |-> FALSE, version |-> 0],
      [threw |-> FALSE, defined |-> FALSE, version |-> 0] }
    \cup { [threw |-> FALSE, defined |-> TRUE, version |-> v] : v \in ProfileVersions }

updatePlayerComponents(C, entity, address, profile) ==
    [C EXCEPT !.stores =
        [c \in listOfComponentsToSynchronize |->
            CASE c = "PlayerIdentityData" ->
                    createOrReplace(C.stores[c], entity,
                        [address |-> address, isGuest |-> ~profile.hasConnectedWeb3])
              [] c = "AvatarBase" ->
                    createOrReplace(C.stores[c], entity,
                        [name |-> profile.userId, version |-> profile.version])
              [] c = "AvatarEquippedData" ->
                    createOrReplace(C.stores[c], entity,
                        [wearablesOf |-> profile.userId, version |-> profile.version])
              [] OTHER -> C.stores[c]]]

\* deletedEntities.set(entity, tick): a Map keeps the place of a key it has
TombSet(tombs, entity, tick) ==
    LET fresh == [entityId |-> entity, tick |-> tick, seenBy |-> {}]
    IN  IF \E i \in DOMAIN tombs : tombs[i].entityId = entity
        THEN [i \in DOMAIN tombs |-> IF tombs[i].entityId = entity THEN fresh ELSE tombs[i]]
        ELSE Append(tombs, fresh)

removePlayerEntity_RawCacheKey(C, entity, address) ==
    [C EXCEPT !.stores = [c \in listOfComponentsToSynchronize |->
                              entityDeleted(C.stores[c], entity, TRUE)],
              !.tombs = TombSet(C.tombs, entity, C.tick),
              !.pem = freeEntityForPlayer(C.pem, address),
              !.cache = MapDelete(C.cache, address)]

removePlayerEntity(C, entity, address) ==
    [C EXCEPT !.stores = [c \in listOfComponentsToSynchronize |->
                              entityDeleted(C.stores[c], entity, TRUE)],
              !.tombs = TombSet(C.tombs, entity, C.tick),
              !.pem = freeEntityForPlayer(C.pem, address),
              !.cache = MapDelete(C.cache, normalizeAddress(address))]

\* findPlayerEntityByAddress allocating without the first identity
findPlayerEntityByAddress_NoIdentity(C, address, createIfMissing) ==
    LET normalizedAddress == normalizeAddress(address)
        found == getEntityForAddress(C.pem, normalizedAddress)
        alloc == allocateEntityForPlayer(C.pem, normalizedAddress)
    IN  IF found # Null THEN [entity |-> found, C |-> C]
        ELSE IF ~createIfMissing THEN [entity |-> Null, C |-> C]
        ELSE [entity |-> alloc.entity, C |-> [C EXCEPT !.pem = alloc.pem]]

\* returns [entity, C]
findPlayerEntityByAddress(C, address, createIfMissing) ==
    LET normalizedAddress == normalizeAddress(address)
        found == getEntityForAddress(C.pem, normalizedAddress)
        alloc == allocateEntityForPlayer(C.pem, normalizedAddress)
    IN  IF found # Null THEN [entity |-> found, C |-> C]
        ELSE IF ~createIfMissing THEN [entity |-> Null, C |-> C]
        ELSE IF alloc.entity = Null THEN [entity |-> Null, C |-> C]
        ELSE [entity |-> alloc.entity,
              C |-> [C EXCEPT
                       !.pem = alloc.pem,
                       !.stores["PlayerIdentityData"] =
                           createOrReplace(@, alloc.entity,
                               [address |-> normalizedAddress, isGuest |-> TRUE])]]

\* handleProfileVersionAnnouncement fetching on every announcement
AnnouncementStart_Always(C, entity, address, announcedVersion) ==
    LET fetch == [entity |-> entity, address |-> address,
                  announcedVersion |-> announcedVersion]
    IN  [C EXCEPT !.fetches =
            MapSet(@, fetch, IF MapHas(@, fetch) THEN @[fetch] + 1 ELSE 1)]

\* handleProfileVersionAnnouncement up to its await: the fetch is issued when
\* nothing is cached for the address or the cached version is older
AnnouncementStart(C, entity, address, announcedVersion) ==
    LET fetch == [entity |-> entity, address |-> address,
                  announcedVersion |-> announcedVersion]
    IN  IF ~MapHas(C.cache, address) \/ C.cache[address].version < announcedVersion
        THEN [C EXCEPT !.fetches =
                 MapSet(@, fetch, IF MapHas(@, fetch) THEN @[fetch] + 1 ELSE 1)]
        ELSE C

\* fetchProfileFromCatalyst, as its caller sees it: it throws again what it
\* caught (request error, response not ok), or returns data[0]?.avatars?.[0]
fetchProfileFromCatalyst(address, outcome) ==
    IF outcome.threw THEN [kind |-> "error"]
    ELSE IF ~outcome.defined THEN [kind |-> "return", defined |-> FALSE]
    ELSE [kind |-> "return", defined |-> TRUE,
          profile |-> Profile(address, outcome.version)]

\* how the promise of handleProfileVersionAnnouncement settles without its try
AnnouncementSettles_Uncaught(fetch, outcome) ==
    IF fetchProfileFromCatalyst(fetch.address, outcome).kind = "error"
    THEN "rejected" ELSE "resolved"

\* how the promise of handleProfileVersionAnnouncement, and with it that of
\* handleProfileMessage, settles: what the fetch throws is caught and logged
AnnouncementSettles(fetch, outcome) ==
    IF fetchProfileFromCatalyst(fetch.address, outcome).kind = "error"
    THEN "resolved" ELSE "resolved"

\* handleProfileVersionAnnouncement applying whatever profile the fetch gave
AnnouncementResume_AnyVersion(C, fetch, outcome) ==
    LET profile == Profile(fetch.address, outcome.version)
        left    == [C EXCEPT !.fetches =
                       IF @[fetch] > 1 THEN MapSet(@, fetch, @[fetch] - 1)
                       ELSE MapDelete(@, fetch)]
    IN  IF ~outcome.threw /\ outcome.defined
        THEN updatePlayerComponents(
                 [left EXCEPT !.cache = MapSet(@, fetch.address,
                                  [profile |-> profile, version |-> profile.version])],
                 fetch.entity, fetch.address, profile)
        ELSE left

\* handleProfileVersionAnnouncement after its await
AnnouncementResume(C, fetch, outcome) ==
    LET profile == Profile(fetch.address, outcome.version)
        left    == [C EXCEPT !.fetches =
                       IF @[fetch] > 1 THEN MapSet(@, fetch, @[fetch] - 1)
                       ELSE MapDelete(@, fetch)]
    IN  IF ~outcome.threw /\ outcome.defined /\ profile.version >= fetch.announcedVersion
        THEN updatePlayerComponents(
                 [left EXCEPT !.cache = MapSet(@, fetch.address,
                                  [profile |-> profile, version |-> profile.version])],
                 fetch.entity, fetch.address, profile)
        ELSE left

handleProfileMessage(C, event) ==
    LET address == normalizeAddress(event.address)
        announcedVersion == event.data.profileVersion
        r == findPlayerEntityByAddress(C, event.address, TRUE)
    IN  IF r.entity # Null
        THEN AnnouncementStart(r.C, r.entity, address, announcedVersion)
        ELSE r.C

\* handlePeerConnected that allocates and announces nothing
handlePeerConnected_NoAnnouncement(C, event) ==
    LET address == normalizeAddress(event.address)
        r == findPlayerEntityByAddress(C, address, TRUE)
    IN  r.C

\* the profileMessage it emits is delivered to handleProfileMessage within the call
handlePeerConnected(C, event) ==
    LET address == normalizeAddress(event.address)
        r == findPlayerEntityByAddress(C, address, TRUE)
    IN  IF r.entity # Null
        THEN handleProfileMessage(r.C, [address |-> address, data |-> [profileVersion |-> 1]])
        ELSE r.C

handlePeerDisconnected(C, event) ==
    LET r == findPlayerEntityByAddress(C, event.address, FALSE)
    IN  IF r.entity # Null THEN removePlayerEntity(r.C, r.entity, event.address) ELSE r.C

handlePosition(C, event) ==
    LET r == findPlayerEntityByAddress(C, event.address, TRUE)
    IN  IF r.entity # Null
        THEN [r.C EXCEPT !.stores["Transform"] =
                 createOrReplace(@, r.entity,
                     [position |-> event.data.position, rotation |-> "quaternion"])]
        ELSE r.C

handleMovement(C, event) ==
    LET r == findPlayerEntityByAddress(C, event.address, TRUE)
    IN  IF r.entity # Null
        THEN [r.C EXCEPT !.stores["Transform"] =
                 createOrReplace(@, r.entity,
                     [position |-> event.data.position, rotation |-> "heading"])]
        ELSE r.C

handleChatMessage(C, event) == findPlayerEntityByAddress(C, event.address, TRUE).C

(***************************************************************************)
(* CommsTransportWrapper.  W is the wrapper with the transport under it:   *)
(* state is its RoomConnectionStatus, connecting the connect() calls       *)
(* suspended at `await this.transport.connect()`, history the values state *)
(* has been given, transport what the underlying transport was asked.      *)
(***************************************************************************)
RoomConnectionStatus == { "NONE", "CONNECTING", "CONNECTED", "DISCONNECTED" }

\* an absent value of a record type (undefined)
Undefined == [undefined |-> TRUE]

\* the cases of proto.Packet.message the wrapper knows, and one it does not
Variants ==
    { "position", "scene", "chat", "voice", "profileRequest", "profileResponse",
      "profileVersion" }

UnknownVariants == { "other" }

Payloads == { "d1", "d2" }

Destinations == { << >>, << <<"b", "2">> >> }

NewWrapper ==
    [state      |-> "NONE",
     connecting |-> 0,
     history    |-> << "NONE" >>,
     transport  |-> [status |-> "idle", connects |-> 0, voicePosition |-> Undefined]]

\* connect() without its first line
connect_Unguarded(W) ==
    [W EXCEPT !.state = "CONNECTING",
              !.history = Append(@, "CONNECTING"),
              !.connecting = @ + 1,
              !.transport.connects = @ + 1,
              !.transport.status = IF @ = "idle" THEN "connecting" ELSE @]

\* connect() up to its await
connect(W) ==
    IF W.state # "NONE" THEN W
    ELSE [W EXCEPT !.state = "CONNECTING",
                   !.history = Append(@, "CONNECTING"),
                   !.connecting = @ + 1,
                   !.transport.connects = @ + 1,
                   !.transport.status = IF @ = "idle" THEN "connecting" ELSE @]

\* connect() after its await, transport.connect() having resolved
connectResolved(W) ==
    [W EXCEPT !.state = "CONNECTED",
              !.history = Append(@, "CONNECTED"),
              !.connecting = @ - 1,
              !.transport.status = IF @ = "connecting" THEN "open" ELSE @]

\* connect() without its try and catch, transport.connect() having rejected
\* with e: the rejection is that of connect()
connectRejected_Uncaught(W, e) ==
    [wrapper |-> [W EXCEPT !.connecting = @ - 1,
                           !.transport.status = "closed"],
     emitted |-> << >>,
     raised  |-> e]

\* connect() in its catch, transport.connect() having rejected with e;
\* returns [wrapper, emitted, raised]
connectRejected(W, e) ==
    [wrapper |-> [W EXCEPT !.state = "DISCONNECTED",
                           !.history = Append(@, "DISCONNECTED"),
                           !.connecting = @ - 1,
                           !.transport.status = "closed"],
     emitted |-> << [channel |-> "DISCONNECTION", error |-> e, kicked |-> FALSE] >>,
     raised  |-> ""]

\* disconnect() that also records the status
disconnect_SetsState(W) ==
    [W EXCEPT !.state = "DISCONNECTED",
              !.history = Append(@, "DISCONNECTED"),
              !.transport.status = "closed"]

disconnect(W) == [W EXCEPT !.transport.status = "closed"]

\* the channel of CommsEvents a case of the packet is emitted on
ChannelOf(case) ==
    CASE case = "position"        -> "position"
      [] case = "scene"           -> "sceneMessageBus"
      [] case = "chat"            -> "chatMessage"
      [] case = "voice"           -> "voiceMessage"
      [] case = "profileRequest"  -> "profileRequest"
      [] case = "profileResponse" -> "profileResponse"
      [] case = "profileVersion"  -> "profileMessage"

\* handleMessage with the chat case falling through to the voice case
handleMessage_FallThrough(W, address, packet) ==
    LET message == packet.message
        event(case) == [channel |-> ChannelOf(case), address |-> address,
                        data |-> message.payload]
    IN  IF message = Undefined THEN [wrapper |-> W, emitted |-> << >>]
        ELSE IF message.case = "chat"
        THEN [wrapper |-> W, emitted |-> << event("chat"), event("voice") >>]
        ELSE IF message.case \in Variants
        THEN [wrapper |-> W, emitted |-> << event(message.case) >>]
        ELSE [wrapper |-> W, emitted |-> << >>]

\* the calls a handler makes, in the order it makes them
VoiceCall(address, position) ==
    [op |-> "setVoicePosition", address |-> address, position |-> position]

EmitCall(event) == [op |-> "emit", event |-> event]

\* handleMessage emitting the position event before it tells the transport
handleMessage_EmitFirst(W, address, packet) ==
    LET message == packet.message
        event(case) == [channel |-> ChannelOf(case), address |-> address,
                        data |-> message.payload]
    IN  IF message = Undefined
        THEN [wrapper |-> W, emitted |-> << >>, effects |-> << >>]
        ELSE IF message.case = "position"
        THEN [wrapper |-> [W EXCEPT !.transport.voicePosition =
                              [address |-> address, position |-> message.payload]],
              emitted |-> << event("position") >>,
              effects |-> << EmitCall(event("position")),
                             VoiceCall(address, message.payload) >>]
        ELSE IF message.case \in Variants
        THEN [wrapper |-> W, emitted |-> << event(message.case) >>,
              effects |-> << EmitCall(event(message.case)) >>]
        ELSE [wrapper |-> W, emitted |-> << >>, effects |-> << >>]

\* handleMessage of the decoded packet; returns [wrapper, emitted, effects]
handleMessage(W, address, packet) ==
    LET message == packet.message
        event(channel) == [channel |-> channel, address |-> address,
                           data |-> message.payload]
        emit(channel) == [wrapper |-> W, emitted |-> << event(channel) >>,
                          effects |-> << EmitCall(event(channel)) >>]
    IN  IF message = Undefined
        THEN [wrapper |-> W, emitted |-> << >>, effects |-> << >>]
        ELSE CASE message.case = "position" ->
                    [wrapper |-> [W EXCEPT !.transport.voicePosition =
                                     [address |-> address, position |-> message.payload]],
                     emitted |-> << event("position") >>,
                     effects |-> << VoiceCall(address, message.payload),
                                    EmitCall(event("position")) >>]
               [] message.case = "scene" -> emit("sceneMessageBus")
               [] message.case = "chat" -> emit("chatMessage")
               [] message.case = "voice" -> emit("voiceMessage")
               [] message.case = "profileRequest" -> emit("profileRequest")
               [] message.case = "profileResponse" -> emit("profileResponse")
               [] message.case = "profileVersion" -> emit("profileMessage")
               [] OTHER -> [wrapper |-> W, emitted |-> << >>, effects |-> << >>]

\* a proto.Packet as a JavaScript object: keys are the properties it has
Envelope(case, payload, protocolVersion) ==
    [keys |-> { "message", "protocolVersion" },
     message |-> [case |-> case, payload |-> payload],
     protocolVersion |-> protocolVersion]

\* proto.Packet.encode(topicMessage).finish(): the fields of the wire format
encode(topicMessage) ==
    [message |-> IF "message" \in topicMessage.keys THEN topicMessage.message ELSE Undefined,
     protocolVersion |-> IF "protocolVersion" \in topicMessage.keys
                         THEN topicMessage.protocolVersion ELSE 0]

\* sendMessage refusing every envelope without a variant
sendMessage_NoVariant(reliable, topicMessage, destination) ==
    IF encode(topicMessage).message = Undefined
    THEN [raised |-> "Invalid empty message", forwarded |-> << >>]
    ELSE [raised |-> "",
          forwarded |-> << [bytes |-> encode(topicMessage), reliable |-> reliable,
                            destination |-> destination] >>]

\* returns [raised, forwarded]
sendMessage(reliable, topicMessage, destination) ==
    IF Cardinality(topicMessage.keys) = 0
    THEN [raised |-> "Invalid empty message", forwarded |-> << >>]
    ELSE [raised |-> "",
          forwarded |-> << [bytes |-> encode(topicMessage), reliable |-> reliable,
                            destination |-> destination] >>]

sendPositionMessage_Reliable(position) ==
    sendMessage(TRUE, Envelope("position", position, 0), << >>)

sendPositionMessage(position) ==
    sendMessage(FALSE, Envelope("position", position, 0), << >>)

sendParcelSceneMessage(scene, destination) ==
    sendMessage(FALSE, Envelope("scene", scene, 100), destination)

sendProfileMessage(profileVersion) ==
    sendMessage(FALSE, Envelope("profileVersion", profileVersion, 0), << >>)

sendProfileRequest(profileRequest) ==
    sendMessage(FALSE, Envelope("profileRequest", profileRequest, 0), << >>)

sendProfileResponse(profileResponse) ==
    sendMessage(FALSE, Envelope("profileResponse", profileResponse, 0), << >>)

sendChatMessage(chat) ==
    sendMessage(TRUE, Envelope("chat", chat, 0), << >>)

sendVoiceMessage(voice) ==
    sendMessage(FALSE, Envelope("voice", voice, 0), << >>)

(***************************************************************************)
(* connectAdapter.  Strings are sequences of tokens, ":" being one, so     *)
(* that indexOf, substring and startsWith are computed.  A JSON value is a *)
(* record with its typeof; an object has the two fields the code reads.    *)
(***************************************************************************)
ConnectionStrings ==
    { << "livekit", ":", "x" >>, << "offline", ":", "offline" >>, << "ws-room", ":", "x" >>,
      << "signed-login", ":", "u1" >>, << "signed-login", ":", "u2" >>,
      << "irc", ":", "x" >>, << "offline" >> }

SceneIds == { "realm", "scene1" }

\* String.prototype.indexOf, counted from 1; 0 when str has no such token
RECURSIVE IndexFrom(_, _, _)
IndexFrom(str, token, i) ==
    IF i > Len(str) THEN 0
    ELSE IF str[i] = token THEN i
    ELSE IndexFrom(str, token, i + 1)

indexOf(str, token) == IndexFrom(str, token, 1)

startsWith(str, prefix) ==
    Len(str) >= Len(prefix) /\ SubSeq(str, 1, Len(prefix)) = prefix

\* values of a JSON field: absent, a string, or something that is not a string
JsonUndefined == [type |-> "undefined"]

JsonString(str) == [type |-> "string", value |-> str]

JsonNumber == [type |-> "number"]

FixedAdapters ==
    { JsonUndefined, JsonNumber, JsonString(<< "livekit", ":", "x" >>),
      JsonString(<< "signed-login", ":", "u2" >>) }

Messages == { JsonUndefined, JsonNumber, JsonString(<< "m1" >>) }

\* what signedFetch resolves with: ok and the parsed body
Responses ==
    { [ok |-> ok, json |-> json] :
        ok \in BOOLEAN,
        json \in { JsonUndefined, [type |-> "null"] }
                 \cup { [type |-> "object", fixedAdapter |-> f, message |-> m] :
                          f \in FixedAdapters, m \in Messages } }

\* the texts of the errors connectAdapter throws
AnotherRealmError ==
    << "There was an error acquiring the communications connection. Decentraland will try to connect to another realm" >>

AcquiringError(message) ==
    << "There was an error acquiring the communications connection: " >> \o message

UnknownError ==
    << "An unknown error was detected while trying to connect to the selected realm." >>

ProtocolError(protocol) ==
    << "A communications adapter could not be created for protocol=" >> \o protocol

\* reading a property of null
TypeError == << "TypeError: Cannot read properties of null" >>

Adapter(url, sceneId) ==
    [kind |-> "adapter", desiredTransports |-> << [url |-> url, sceneId |-> sceneId] >>]

Thrown(text) == [kind |-> "error", text |-> text]

NoHandshake ==
    [phase |-> "idle", connStr |-> << >>, sceneId |-> "", requests |-> << >>,
     response |-> [ok |-> FALSE, json |-> JsonUndefined], outcome |-> Thrown(<< >>)]

\* the signed-login case after its await; returns the adapter or the error
signedLogin_MessageFirst(result, sceneId) ==
    LET response == result.json
    IN  IF ~result.ok \/ response.type \notin { "object", "null" }
        THEN Thrown(AnotherRealmError)
        ELSE IF response.type = "null" THEN Thrown(TypeError)
        ELSE IF response.message.type = "string"
        THEN Thrown(AcquiringError(response.message.value))
        ELSE IF /\ response.fixedAdapter.type = "string"
                /\ ~startsWith(response.fixedAdapter.value, << "signed-login", ":" >>)
        THEN Adapter(response.fixedAdapter.value, sceneId)
        ELSE Thrown(UnknownError)

\* the signed-login case taking any string fixedAdapter
signedLogin_AnyAdapter(result, sceneId) ==
    LET response == result.json
    IN  IF ~result.ok \/ response.type \notin { "object", "null" }
        THEN Thrown(AnotherRealmError)
        ELSE IF response.type = "null" THEN Thrown(TypeError)
        ELSE IF response.fixedAdapter.type = "string"
        THEN Adapter(response.fixedAdapter.value, sceneId)
        ELSE IF response.message.type = "string"
        THEN Thrown(AcquiringError(response.message.value))
        ELSE Thrown(UnknownError)

signedLogin(result, sceneId) ==
    LET response == result.json
    IN  IF ~result.ok \/ response.type \notin { "object", "null" }
        THEN Thrown(AnotherRealmError)
        ELSE IF response.type = "null" THEN Thrown(TypeError)
        ELSE IF /\ response.fixedAdapter.type = "string"
                /\ ~startsWith(response.fixedAdapter.value, << "signed-login", ":" >>)
        THEN Adapter(response.fixedAdapter.value, sceneId)
        ELSE IF response.message.type = "string"
        THEN Thrown(AcquiringError(response.message.value))
        ELSE Thrown(UnknownError)

\* connectAdapter falling back to the offline adapter for an unknown protocol
connectAdapter_DefaultOffline(connStr, sceneId) ==
    LET ix       == indexOf(connStr, ":")
        protocol == SubSeq(connStr, 1, ix - 1)
        url      == SubSeq(connStr, ix + 1, Len(connStr))
        call     == [NoHandshake EXCEPT !.connStr = connStr, !.sceneId = sceneId]
        done(outcome) == [call EXCEPT !.phase = "done", !.outcome = outcome]
    IN  CASE protocol = << "livekit" >> -> done(Adapter(connStr, sceneId))
          [] protocol = << "offline" >> -> done(Adapter(<< >>, sceneId))
          [] protocol = << "ws-room" >> -> done(Adapter(connStr, sceneId))
          [] protocol = << "signed-login" >> ->
                [call EXCEPT !.phase = "awaiting", !.requests = << url >>]
          [] OTHER -> done(Adapter(<< >>, sceneId))

\* connectAdapter handing on the url after the protocol tag
connectAdapter_UrlOnly(connStr, sceneId) ==
    LET ix       == indexOf(connStr, ":")
        protocol == SubSeq(connStr, 1, ix - 1)
        url      == SubSeq(connStr, ix + 1, Len(connStr))
        call     == [NoHandshake EXCEPT !.connStr = connStr, !.sceneId = sceneId]
        done(outcome) == [call EXCEPT !.phase = "done", !.outcome = outcome]
    IN  CASE protocol = << "livekit" >> -> done(Adapter(url, sceneId))
          [] protocol = << "offline" >> -> done(Adapter(url, sceneId))
          [] protocol = << "ws-room" >> -> done(Adapter(url, sceneId))
          [] protocol = << "signed-login" >> ->
                [call EXCEPT !.phase = "awaiting", !.requests = << url >>]
          [] OTHER -> done(Thrown(ProtocolError(protocol)))

\* connectAdapter up to its await, or to its end when it has none
connectAdapter(connStr, sceneId) ==
    LET ix       == indexOf(connStr, ":")
        protocol == SubSeq(connStr, 1, ix - 1)
        url      == SubSeq(connStr, ix + 1, Len(connStr))
        call     == [NoHandshake EXCEPT !.connStr = connStr, !.sceneId = sceneId]
        done(outcome) == [call EXCEPT !.phase = "done", !.outcome = outcome]
    IN  CASE protocol = << "livekit" >> -> done(Adapter(connStr, sceneId))
          [] protocol = << "offline" >> -> done(Adapter(<< >>, sceneId))
          [] protocol = << "ws-room" >> -> done(Adapter(connStr, sceneId))
          [] protocol = << "signed-login" >> ->
                [call EXCEPT !.phase = "awaiting", !.requests = << url >>]
          [] OTHER -> done(Thrown(ProtocolError(protocol)))

\* connectAdapter after `await signedFetch(...)`
connectAdapterResume(H, result) ==
    [H EXCEPT !.phase = "done", !.response = result,
              !.outcome = signedLogin(result, H.sceneId)]

(***************************************************************************)
(* signed-fetch.ts.  A string is a sequence of tokens: a JSON punctuation  *)
(* mark, a literal, a one-digit number, a quoted string or a bare word     *)
(* (each with its characters), or a run of n blanks.  JSON.stringify and   *)
(* JSON.parse are computed over these tokens, and so are length,           *)
(* toLowerCase and join.  A JSON value is a record with its type; an       *)
(* object keeps its members in insertion order.                            *)
(***************************************************************************)
Tok(kind) == [kind |-> kind, chars |-> << >>, n |-> 0]

Str(chars) == [kind |-> "string", chars |-> chars, n |-> 0]

Word(chars) == [kind |-> "word", chars |-> chars, n |-> 0]

Num(n) == [kind |-> "number", chars |-> << >>, n |-> n]

Ws(n) == [kind |-> "ws", chars |-> << >>, n |-> n]

\* the number of characters of one token
TokenLength(tok) ==
    CASE tok.kind = "string"           -> Len(tok.chars) + 2
      [] tok.kind = "word"             -> Len(tok.chars)
      [] tok.kind = "ws"               -> tok.n
      [] tok.kind \in {"true", "null"} -> 4
      [] tok.kind = "false"            -> 5
      [] OTHER                         -> 1

\* String.prototype.length
RECURSIVE length(_)
length(text) ==
    IF text = << >> THEN 0 ELSE TokenLength(Head(text)) + length(Tail(text))

\* String.prototype.toLowerCase over a whole text
toLowerCaseText(text) ==
    [i \in DOMAIN text |-> [text[i] EXCEPT !.chars = toLowerCase(@)]]

\* Array.prototype.join
RECURSIVE join(_, _)
join(parts, separator) ==
    IF parts = << >> THEN << >>
    ELSE IF Len(parts) = 1 THEN parts[1]
    ELSE parts[1] \o separator \o join(Tail(parts), separator)

JsonNull == [type |-> "null"]

JsonBoolean(b) == [type |-> "boolean", bool |-> b]

JsonNumberOf(n) == [type |-> "number", num |-> n]

JsonArray(items) == [type |-> "array", items |-> items]

JsonObject(entries) == [type |-> "object", entries |-> entries]

Entry(key, value) == [key |-> key, value |-> value]

EmptyObject == JsonObject(<< >>)

\* the keys of an object, in order
KeysOf(object) == [i \in DOMAIN object.entries |-> object.entries[i].key]

HasKey(object, key) == \E i \in DOMAIN object.entries : object.entries[i].key = key

GetKey(object, key) ==
    object.entries[CHOOSE i \in DOMAIN object.entries : object.entries[i].key = key].value

\* object[key] = value: an own key keeps its place, a new one goes last
SetKey(object, key, value) ==
    IF HasKey(object, key)
    THEN JsonObject([i \in DOMAIN object.entries |->
                        IF object.entries[i].key = key
                        THEN Entry(key, value) ELSE object.entries[i]])
    ELSE JsonObject(Append(object.entries, Entry(key, value)))

\* { ...target, ...source }
RECURSIVE SpreadFrom(_, _, _)
SpreadFrom(target, source, i) ==
    IF i > Len(source.entries) THEN target
    ELSE SpreadFrom(SetKey(target, source.entries[i].key, source.entries[i].value),
                    source, i + 1)

Spread(target, source) == SpreadFrom(target, source, 1)

\* JSON.stringify
RECURSIVE stringify(_)
RECURSIVE StringifyItems(_, _)
RECURSIVE StringifyEntries(_, _)
StringifyItems(items, i) ==
    IF i > Len(items) THEN << >>
    ELSE (IF i > 1 THEN << Tok(",") >> ELSE << >>)
            \o stringify(items[i]) \o StringifyItems(items, i + 1)

StringifyEntries(entries, i) ==
    IF i > Len(entries) THEN << >>
    ELSE (IF i > 1 THEN << Tok(",") >> ELSE << >>)
            \o << Str(entries[i].key), Tok(":") >> \o stringify(entries[i].value)
            \o StringifyEntries(entries, i + 1)

stringify(value) ==
    CASE value.type = "null"    -> << Tok("null") >>
      [] value.type = "boolean" -> << Tok(IF value.bool THEN "true" ELSE "false") >>
      [] value.type = "number"  -> << Num(value.num) >>
      [] value.type = "string"  -> << Str(value.value) >>
      [] value.type = "array"   ->
            << Tok("[") >> \o StringifyItems(value.items, 1) \o << Tok("]") >>
      [] value.type = "object"  ->
            << Tok("{") >> \o StringifyEntries(value.entries, 1) \o << Tok("}") >>

\* JSON.parse.  A step of the parser gives the value read and the place after
\* it, or fails; blanks are allowed around every token.
ParseFailed == [ok |-> FALSE, value |-> JsonNull, next |-> 0]

Parsed(value, next) == [ok |-> TRUE, value |-> value, next |-> next]

RECURSIVE SkipWs(_, _)
SkipWs(text, i) ==
    IF i <= Len(text) /\ text[i].kind = "ws" THEN SkipWs(text, i + 1) ELSE i

KindAt(text, i) == IF i <= Len(text) THEN text[i].kind ELSE "end"

RECURSIVE ParseValue(_, _)
RECURSIVE ParseItems(_, _, _)
RECURSIVE ParseMembers(_, _, _)
\* the items of an array from its i-th token on, items being read already
ParseItems(text, i, items) ==
    LET item  == ParseValue(text, i)
        after == SkipWs(text, item.next)
    IN  IF ~item.ok THEN ParseFailed
        ELSE IF KindAt(text, after) = ","
        THEN ParseItems(text, after + 1, Append(items, item.value))
        ELSE IF KindAt(text, after) = "]"
        THEN Parsed(JsonArray(Append(items, item.value)), after + 1)
        ELSE ParseFailed

\* the members of an object from its i-th token on
ParseMembers(text, i, object) ==
    LET k     == SkipWs(text, i)
        colon == SkipWs(text, k + 1)
        item  == ParseValue(text, colon + 1)
        after == SkipWs(text, item.next)
    IN  IF KindAt(text, k) # "string" \/ KindAt(text, colon) # ":" THEN ParseFailed
        ELSE IF ~item.ok THEN ParseFailed
        ELSE IF KindAt(text, after) = ","
        THEN ParseMembers(text, after + 1, SetKey(object, text[k].chars, item.value))
        ELSE IF KindAt(text, after) = "}"
        THEN Parsed(SetKey(object, text[k].chars, item.value), after + 1)
        ELSE ParseFailed

ParseValue(text, i) ==
    LET j    == SkipWs(text, i)
        kind == KindAt(text, j)
    IN  CASE kind = "null"   -> Parsed(JsonNull, j + 1)
          [] kind = "true"   -> Parsed(JsonBoolean(TRUE), j + 1)
          [] kind = "false"  -> Parsed(JsonBoolean(FALSE), j + 1)
          [] kind = "number" -> Parsed(JsonNumberOf(text[j].n), j + 1)
          [] kind = "string" -> Parsed(JsonString(text[j].chars), j + 1)
          [] kind = "["      ->
                IF KindAt(text, SkipWs(text, j + 1)) = "]"
                THEN Parsed(JsonArray(<< >>), SkipWs(text, j + 1) + 1)
                ELSE ParseItems(text, j + 1, << >>)
          [] kind = "{"      ->
                IF KindAt(text, SkipWs(text, j + 1)) = "}"
                THEN Parsed(EmptyObject, SkipWs(text, j + 1) + 1)
                ELSE ParseMembers(text, j + 1, EmptyObject)
          [] OTHER           -> ParseFailed

\* JSON.parse: ok with the value, or not ok when it throws a SyntaxError
parse(text) ==
    LET r == ParseValue(text, 1)
    IN  IF r.ok /\ SkipWs(text, r.next) > Len(text)
        THEN [ok |-> TRUE, value |-> r.value]
        ELSE [ok |-> FALSE, value |-> JsonNull]

MAX_METADATA_SIZE == 2000

MAX_METADATA_KEYS == 20

MAX_NESTING_DEPTH == 3

MAX_KEY_LENGTH == 50

DANGEROUS_KEYS ==
    { << "_", "_", "p", "r", "o", "t", "o", "_", "_" >>,
      << "c", "o", "n", "s", "t", "r", "u", "c", "t", "o", "r" >>,
      << "p", "r", "o", "t", "o", "t", "y", "p", "e" >> }

IsPrimitive(value) == value.type \in { "null", "string", "number", "boolean" }

RECURSIVE sanitizeObject(_, _)
RECURSIVE SanitizeEntries(_, _, _, _, _)
\* the for-in loop of sanitizeObject from the i-th key of obj on
SanitizeEntries(obj, i, sanitized, keyCount, currentDepth) ==
    IF i > Len(obj.entries) THEN sanitized
    ELSE LET key == obj.entries[i].key
         IN  IF key \in DANGEROUS_KEYS
             THEN SanitizeEntries(obj, i + 1, sanitized, keyCount, currentDepth)
             ELSE IF keyCount >= MAX_METADATA_KEYS THEN sanitized
             ELSE IF Len(key) > MAX_KEY_LENGTH
             THEN SanitizeEntries(obj, i + 1, sanitized, keyCount, currentDepth)
             ELSE SanitizeEntries(obj, i + 1,
                      SetKey(sanitized, key,
                             sanitizeObject(obj.entries[i].value, currentDepth + 1)),
                      keyCount + 1, currentDepth)

\* sanitizeObject leaving the elements of an array as they are
sanitizeObject_ArraysAsIs(obj, currentDepth) ==
    IF currentDepth > MAX_NESTING_DEPTH THEN EmptyObject
    ELSE IF IsPrimitive(obj) THEN obj
    ELSE IF obj.type \notin { "array", "object" } THEN JsonNull
    ELSE IF obj.type = "array" THEN obj
    ELSE SanitizeEntries(obj, 1, EmptyObject, 0, currentDepth)

sanitizeObject(obj, currentDepth) ==
    IF currentDepth > MAX_NESTING_DEPTH THEN EmptyObject
    ELSE IF IsPrimitive(obj) THEN obj
    ELSE IF obj.type \notin { "array", "object" } THEN JsonNull
    ELSE IF obj.type = "array"
    THEN JsonArray([i \in DOMAIN obj.items |->
                       sanitizeObject(obj.items[i], currentDepth + 1)])
    ELSE SanitizeEntries(obj, 1, EmptyObject, 0, currentDepth)

\* a call that returned value
Returned(value) == [kind |-> "return", value |-> value]

\* safeParseMetadata without its try and catch
safeParseMetadata_Uncaught(metadata) ==
    LET parsed == parse(metadata)
    IN  IF length(metadata) > MAX_METADATA_SIZE THEN Returned(EmptyObject)
        ELSE IF ~parsed.ok THEN Thrown(<< "SyntaxError" >>)
        ELSE IF parsed.value.type # "object" THEN Returned(EmptyObject)
        ELSE Returned(sanitizeObject(parsed.value, 0))

\* what JSON.parse throws is caught, and the empty object returned
safeParseMetadata(metadata) ==
    LET parsed == parse(metadata)
    IN  IF length(metadata) > MAX_METADATA_SIZE THEN Returned(EmptyObject)
        ELSE IF ~parsed.ok THEN Returned(EmptyObject)
        ELSE IF parsed.value.type # "object" THEN Returned(EmptyObject)
        ELSE Returned(sanitizeObject(parsed.value, 0))

\* Number.prototype.toString of a timestamp
toString(timestamp) == << Num(timestamp) >>

\* Authenticator.signPayload: the chain ends with the link that signs payload
signPayload(payload) == << [type |-> "SIGNER"], [type |-> "ECDSA_SIGNED_ENTITY", payload |-> payload] >>

\* getAuthChainSignature signing the parts as they were given
getAuthChainSignature_AsGiven(method, path, metadata, timestamp) ==
    LET payloadParts  == << method, path, toString(timestamp), metadata >>
        payloadToSign == join(payloadParts, << Tok(":") >>)
    IN  [authChain |-> signPayload(payloadToSign), metadata |-> metadata,
         timestamp |-> timestamp]

\* timestamp is what Date.now() gave
getAuthChainSignature(method, path, metadata, timestamp) ==
    LET payloadParts  == << toLowerCaseText(method), toLowerCaseText(path),
                            toString(timestamp), metadata >>
        payloadToSign == toLowerCaseText(join(payloadParts, << Tok(":") >>))
    IN  [authChain |-> signPayload(payloadToSign), metadata |-> metadata,
         timestamp |-> timestamp]

getSignedHeaders(method, path, metadata, timestamp) ==
    LET signature == getAuthChainSignature(method, path, stringify(metadata), timestamp)
    IN  [authChain |-> [i \in DOMAIN signature.authChain |-> signature.authChain[i]],
         timestamp |-> toString(signature.timestamp),
         metadata  |-> signature.metadata]

\* a field of init that is absent, or given with a value
Absent == [given |-> FALSE]

Given(value) == [given |-> TRUE, value |-> value]

Origin ==
    JsonObject(<< Entry(<< "o", "r", "i", "g", "i", "n" >>,
                        JsonString(<< "h", "a", "m", "m", "u", "r", "a", "b", "i", "-", "s", "e", "r", "v", "e", "r", ":", "/", "/" >>)) >>)

NoRequest ==
    [phase |-> "idle", method |-> << >>, path |-> << >>, timestamp |-> 0,
     initMetadata |-> << >>, parsed |-> Returned(EmptyObject),
     headers |-> [authChain |-> << >>, timestamp |-> << >>, metadata |-> << >>]]

\* signedFetch up to its call of flatFetch; path is new URL(url).pathname
signedFetch(path, init, additionalMetadata, timestamp) ==
    LET initMetadata == IF init.metadata.given THEN init.metadata.value
                        ELSE stringify(EmptyObject)
        method       == IF init.method.given THEN init.method.value
                        ELSE << Word(<< "g", "e", "t" >>) >>
        parsed       == safeParseMetadata(initMetadata)
    IN  IF parsed.kind # "return"
        THEN [NoRequest EXCEPT !.phase = "threw", !.method = method, !.path = path,
                               !.initMetadata = initMetadata, !.parsed = parsed]
        ELSE [phase        |-> "sent",
              method       |-> method,
              path         |-> path,
              timestamp    |-> timestamp,
              initMetadata |-> initMetadata,
              parsed       |-> parsed,
              headers      |-> getSignedHeaders(method, path,
                                   Spread(Spread(Origin, additionalMetadata), parsed.value),
                                   timestamp)]

(***************************************************************************)
(* createNetworkedProfileSystem.  Time is performance.now() in             *)
(* milliseconds; the system is the record of currentAvatar and lastReport, *)
(* and its transport is the wrapper above.                                 *)
(***************************************************************************)
MAX_AVATARS_PER_SECOND == 2

\* what performance.now() gives when the system is created
StartTime == 1000

\* the avatars handed to setAvatar; version is whatever the caller had
Avatars ==
    { [version |-> v, ethAddress |-> << "A", "1" >>, userId |-> << "A", "1" >>] :
        v \in { 0, 7 } }

\* the system as created at time now
NewProfileSystem(now) == [currentAvatar |-> Undefined, lastReport |-> now]

\* returns [discard, system]
shouldDiscard(P, now) ==
    IF (now - P.lastReport) < (1000 \div MAX_AVATARS_PER_SECOND)
    THEN [discard |-> TRUE, system |-> P]
    ELSE [discard |-> FALSE, system |-> [P EXCEPT !.lastReport = now]]

\* returns [system, accepted, raised, forwarded]: the system after the call,
\* whether the call passed shouldDiscard, and what the transport was given
lateUpdate(P, W, now) ==
    LET avatar == P.currentAvatar
        check  == shouldDiscard(P, now)
        quiet  == [system |-> P, accepted |-> FALSE, raised |-> "", forwarded |-> << >>]
    IN  IF avatar = Undefined THEN quiet
        ELSE IF check.discard THEN quiet
        ELSE IF W.state = "CONNECTED"
        THEN [system    |-> check.system,
              accepted  |-> TRUE,
              raised    |-> sendProfileMessage([profileVersion |-> avatar.version]).raised,
              forwarded |-> sendProfileMessage([profileVersion |-> avatar.version]).forwarded]
        ELSE [quiet EXCEPT !.system = check.system, !.accepted = TRUE]

\* setAvatar storing the avatar with the version it came with
setAvatar_KeepsVersion(P, avatar) ==
    [P EXCEPT !.currentAvatar = avatar, !.lastReport = 0]

setAvatar(P, avatar) ==
    LET current == P.currentAvatar
    IN  [P EXCEPT !.currentAvatar =
                      [avatar EXCEPT !.version =
                          (IF current = Undefined THEN 0 ELSE current.version) + 1],
                  !.lastReport = 0]

(***************************************************************************)
(* mesh-collider-component.ts.  The entity holds what was applied to it in *)
(* appliedComponents.meshCollider; meshes are the boxes MeshBuilder has    *)
(* made, in order of creation, each with the number of dispose() calls it  *)
(* has had.  A collider is the place of its mesh in that sequence.         *)
(***************************************************************************)
DEFAULT_COLLIDER_LAYERS == 3

\* componentStorage.getOrNull(entity.entityId) when the entity has no value
NullValue == [null |-> TRUE]

\* the PBMeshCollider values, with and without a collisionMask
MeshColliderValues ==
    { [hasCollisionMask |-> FALSE, collisionMask |-> 0],
      [hasCollisionMask |-> TRUE, collisionMask |-> 1] }

ComponentTypes == { "LastWriteWinElementSet", "GrowOnlyValueSet" }

NewEntity == [appliedComponents |-> [meshCollider |-> Undefined], meshes |-> << >>]

\* the callback run when a change of the component is applied to the entity,
\* newValue being what the component storage holds for it
meshColliderComponent(E, componentType, newValue) ==
    LET currentValue     == E.appliedComponents.meshCollider
        hasCurrent       == currentValue # Undefined
        hasNew           == newValue # NullValue
        isAddingNewValue == ~hasCurrent /\ hasNew
        isReplacingValue == hasCurrent /\ hasNew
        isRemovingValue  == hasCurrent /\ ~hasNew
        disposed         == IF isReplacingValue \/ isRemovingValue
                            THEN [E EXCEPT !.meshes[currentValue.collider].disposed = @ + 1]
                            ELSE E
        baseBox          == [disposed |-> 0,
                             mask |-> IF hasNew /\ newValue.hasCollisionMask
                                      THEN newValue.collisionMask
                                      ELSE DEFAULT_COLLIDER_LAYERS]
    IN  IF componentType # "LastWriteWinElementSet" THEN E
        ELSE IF isAddingNewValue \/ isReplacingValue
        THEN [disposed EXCEPT !.meshes = Append(@, baseBox),
                              !.appliedComponents.meshCollider =
                                  [collider |-> Len(E.meshes) + 1, info |-> newValue]]
        ELSE disposed

(***************************************************************************)
(* State.                                                                  *)
(***************************************************************************)
VARIABLES
    playerEntityManager,  \* Map: allocator key -> entity
    stores,               \* component name -> store
    deletedEntities,      \* the tombstone Map in insertion order
    currentTick,
    profileCache,         \* Map: address -> [profile, version]
    pendingFetches,       \* Map: suspended announcement -> how many of it
    attached,             \* the six handlers are registered on the transport
    subscriptions,        \* Map: subscription -> its cursors
    writer,               \* the buffer handed to getUpdates in this step
    dupDelete,            \* history: some DELETE was written twice to one subscription
    dupWrite,             \* history: some write was exported twice to one subscription
    wrapper,              \* the CommsTransportWrapper and the transport under it
    emitted,              \* the events the wrapper emitted in this step
    forwarded,            \* the packets handed to transport.send in this step
    raised,               \* the error this step's call raised, "" when none
    handshake,            \* the connectAdapter call: its request, response and outcome
    signedRequest,        \* the signedFetch call: its inputs and the headers it sent
    clock,                \* performance.now()
    profileSystem,        \* currentAvatar and lastReport
    calls,                \* history: the lateUpdate calls made
    sceneEntity           \* one BabylonEntity and the collider meshes made for it

controllerVars == <<playerEntityManager, stores, deletedEntities, currentTick, profileCache,
                    pendingFetches, attached, subscriptions, writer, dupDelete, dupWrite>>

wrapperVars == <<wrapper, emitted, forwarded, raised>>

adapterVars == <<handshake>>

fetchVars == <<signedRequest>>

profileVars == <<clock, profileSystem, calls>>

meshVars == <<sceneEntity>>

vars == <<playerEntityManager, stores, deletedEntities, currentTick, profileCache,
          pendingFetches, attached, subscriptions, writer, dupDelete, dupWrite,
          wrapper, emitted, forwarded, raised, handshake, signedRequest,
          clock, profileSystem, calls, sceneEntity>>

SubscriptionIds == {"s1", "s2"}

\* the closure state of the controller, as one record
Ctl == [pem |-> playerEntityManager, stores |-> stores, tombs |-> deletedEntities,
        tick |-> currentTick, cache |-> profileCache, fetches |-> pendingFetches]

Install(C) ==
    /\ playerEntityManager' = C.pem
    /\ stores' = C.stores
    /\ deletedEntities' = C.tombs
    /\ currentTick' = C.tick
    /\ profileCache' = C.cache
    /\ pendingFetches' = C.fetches

FetchCount(fetches) ==
    LET RECURSIVE Sum(_)
        Sum(S) == IF S = {} THEN 0
                  ELSE LET f == CHOOSE x \in S : TRUE IN fetches[f] + Sum(S \ {f})
    IN  Sum(DOMAIN fetches)

\* the bounds: a handler writes no component value once the store's revision has
\* reached MaxRevision, a fetch settles with no profile update once the revision
\* of AvatarBase (written by profile updates alone) has reached MaxRevision, and
\* no more than MaxFetches fetches are in flight
HandlerWithinBounds(C) ==
    /\ \A c \in listOfComponentsToSynchronize :
          C.stores[c].revision # stores[c].revision => stores[c].revision < MaxRevision
    /\ FetchCount(C.fetches) <= MaxFetches

ResumeWithinBounds(C) == C.stores["AvatarBase"].revision <= MaxRevision

Init ==
    /\ playerEntityManager = EmptyMap
    /\ stores = [c \in listOfComponentsToSynchronize |-> NewStore]
    /\ deletedEntities = << >>
    /\ currentTick = 0
    /\ profileCache = EmptyMap
    /\ pendingFetches = EmptyMap
    /\ attached = TRUE
    /\ subscriptions = EmptyMap
    /\ writer = << >>
    /\ dupDelete = FALSE
    /\ dupWrite = FALSE
    /\ wrapper = NewWrapper
    /\ emitted = << >>
    /\ forwarded = << >>
    /\ raised = ""
    /\ handshake = NoHandshake
    /\ signedRequest = NoRequest
    /\ clock = StartTime
    /\ profileSystem = NewProfileSystem(StartTime)
    /\ calls = << >>
    /\ sceneEntity = NewEntity

(***************************************************************************)
(* Subscriptions.  A subscription holds one cursor per component store and *)
(* the tick of its last getUpdates call; received is history: the revision *)
(* of the last record written to it for each (component, entity).          *)
(***************************************************************************)
NewSubscription ==
    [state |-> [c \in listOfComponentsToSynchronize |-> -1],
     lastDeleteTick |-> -1,
     received |-> EmptyMap]

DeleteRecords(tombs, lastDeleteTick) ==
    LET newer == SelectSeq(tombs, LAMBDA t : t.tick > lastDeleteTick)
    IN  [i \in DOMAIN newer |-> [kind |-> "DELETE_ENTITY", entityId |-> newer[i].entityId]]

RECURSIVE ComponentDeltas(_, _, _)
ComponentDeltas(sts, cursors, i) ==
    IF i > Len(Components) THEN << >>
    ELSE dumpCrdtDeltas(Components[i], sts[Components[i]], cursors[Components[i]]).records
         \o ComponentDeltas(sts, cursors, i + 1)

\* mutants of getUpdates: the cursors of the stores are not stored back
getUpdates_KeepCursor(sub, tombs, sts, tick) ==
    [writer |-> DeleteRecords(tombs, sub.lastDeleteTick) \o ComponentDeltas(sts, sub.state, 1),
     sub    |-> [sub EXCEPT !.lastDeleteTick = tick]]

\* the delete tick is not stored back
getUpdates_KeepDeleteTick(sub, tombs, sts, tick) ==
    [writer |-> DeleteRecords(tombs, sub.lastDeleteTick) \o ComponentDeltas(sts, sub.state, 1),
     sub    |-> [sub EXCEPT
                   !.state = [c \in listOfComponentsToSynchronize |->
                                 dumpCrdtDeltas(c, sts[c], sub.state[c]).newRevision]]]

\* the DELETE_ENTITY records are written after the component deltas
getUpdates_DeletesLast(sub, tombs, sts, tick) ==
    [writer |-> ComponentDeltas(sts, sub.state, 1) \o DeleteRecords(tombs, sub.lastDeleteTick),
     sub    |-> [sub EXCEPT
                   !.lastDeleteTick = tick,
                   !.state = [c \in listOfComponentsToSynchronize |->
                                 dumpCrdtDeltas(c, sts[c], sub.state[c]).newRevision]]]

\* returns [writer, sub]: what the call writes and the subscription after it
getUpdates(sub, tombs, sts, tick) ==
    [writer |-> DeleteRecords(tombs, sub.lastDeleteTick) \o ComponentDeltas(sts, sub.state, 1),
     sub    |-> [sub EXCEPT
                   !.lastDeleteTick = tick,
                   !.state = [c \in listOfComponentsToSynchronize |->
                                 dumpCrdtDeltas(c, sts[c], sub.state[c]).newRevision]]]

\* history kept beside a getUpdates call
DeletesIn(out) == { i \in DOMAIN out : out[i].kind = "DELETE_ENTITY" }

DeltasIn(out) == { i \in DOMAIN out : out[i].kind # "DELETE_ENTITY" }

MarkSeen(tombs, out, s) ==
    [i \in DOMAIN tombs |->
        IF \E j \in DeletesIn(out) : out[j].entityId = tombs[i].entityId
        THEN [tombs[i] EXCEPT !.seenBy = @ \cup {s}]
        ELSE tombs[i]]

DeleteRepeated(tombs, out, s) ==
    \/ \E i \in DOMAIN tombs, j \in DeletesIn(out) :
          out[j].entityId = tombs[i].entityId /\ s \in tombs[i].seenBy
    \/ \E j, k \in DeletesIn(out) : j # k /\ out[j].entityId = out[k].entityId

WriteRepeated(received, out) ==
    \/ \E j \in DeltasIn(out) :
          LET key == <<out[j].component, out[j].entityId>>
          IN  MapHas(received, key) /\ received[key] = out[j].revision
    \/ \E j, k \in DeltasIn(out) :
          j # k /\ out[j].component = out[k].component /\ out[j].entityId = out[k].entityId

Receive(received, out) ==
    LET keys == { <<out[j].component, out[j].entityId>> : j \in DeltasIn(out) }
    IN  [key \in (DOMAIN received) \cup keys |->
            IF key \in keys
            THEN LET j == CHOOSE j \in DeltasIn(out) :
                              <<out[j].component, out[j].entityId>> = key
                 IN  out[j].revision
            ELSE received[key]]

(***************************************************************************)
(* Actions: the six transport handlers, the resumption of a suspended      *)
(* announcement, and the public API of the controller.  writer is the      *)
(* buffer handed to getUpdates: it holds what the call of this step wrote  *)
(* and is empty after any other step.                                      *)
(***************************************************************************)
Handle(after) ==
    LET C == after
    IN  /\ attached
        /\ HandlerWithinBounds(C)
        /\ Install(C)
        /\ writer' = << >>
        /\ UNCHANGED <<attached, subscriptions, dupDelete, dupWrite>>
        /\ UNCHANGED <<wrapperVars, adapterVars, fetchVars, profileVars, meshVars>>

PeerConnectedFrom(a) == Handle(handlePeerConnected(Ctl, [address |-> a]))

PeerDisconnectedFrom(a) == Handle(handlePeerDisconnected(Ctl, [address |-> a]))

PositionFrom(a, p) ==
    Handle(handlePosition(Ctl, [address |-> a, data |-> [position |-> p]]))

MovementFrom(a, p) ==
    Handle(handleMovement(Ctl, [address |-> a, data |-> [position |-> p]]))

ProfileMessageFrom(a, v) ==
    Handle(handleProfileMessage(Ctl, [address |-> a, data |-> [profileVersion |-> v]]))

ChatMessageFrom(a) == Handle(handleChatMessage(Ctl, [address |-> a]))

PeerConnected == \E a \in RawAddresses : PeerConnectedFrom(a)

PeerDisconnected == \E a \in RawAddresses : PeerDisconnectedFrom(a)

PositionReceived == \E a \in RawAddresses, p \in Positions : PositionFrom(a, p)

MovementReceived == \E a \in RawAddresses, p \in Positions : MovementFrom(a, p)

ProfileMessageReceived ==
    \E a \in RawAddresses, v \in ProfileVersions : ProfileMessageFrom(a, v)

ChatMessageReceived == \E a \in RawAddresses : ChatMessageFrom(a)

\* a fetch settles and its announcement resumes, whatever has happened meanwhile
FetchCompleteWith(fetch, outcome) ==
    /\ MapHas(pendingFetches, fetch)
    /\ LET C == AnnouncementResume(Ctl, fetch, outcome)
       IN
        /\ ResumeWithinBounds(C)
        /\ Install(C)
        /\ writer' = << >>
        /\ UNCHANGED <<attached, subscriptions, dupDelete, dupWrite>>
        /\ UNCHANGED <<wrapperVars, adapterVars, fetchVars, profileVars, meshVars>>

FetchComplete ==
    \E fetch \in DOMAIN pendingFetches, outcome \in FetchOutcomes :
        FetchCompleteWith(fetch, outcome)

\* the profile directory is unreachable: every fetch throws
FetchFailed ==
    \E fetch \in DOMAIN pendingFetches :
        FetchCompleteWith(fetch, [threw |-> TRUE, defined |-> FALSE, version |-> 0])

Update ==
    /\ currentTick < MaxTick
    /\ currentTick' = currentTick + 1
    /\ stores' = [c \in listOfComponentsToSynchronize |-> dumpCrdtUpdates(stores[c])]
    /\ writer' = << >>
    /\ UNCHANGED <<playerEntityManager, deletedEntities, profileCache, pendingFetches,
                   attached, subscriptions, dupDelete, dupWrite>>
    /\ UNCHANGED <<wrapperVars, adapterVars, fetchVars, profileVars, meshVars>>

CreateSubscriptionOf(s) ==
    /\ ~MapHas(subscriptions, s)
    /\ subscriptions' = MapSet(subscriptions, s, NewSubscription)
    /\ writer' = << >>
    /\ UNCHANGED <<playerEntityManager, stores, deletedEntities, currentTick,
                   profileCache, pendingFetches, attached, dupDelete, dupWrite>>
    /\ UNCHANGED <<wrapperVars, adapterVars, fetchVars, profileVars, meshVars>>

CreateSubscription == \E s \in SubscriptionIds : CreateSubscriptionOf(s)

GetUpdatesOf(s) ==
    /\ MapHas(subscriptions, s)
    /\ LET r == getUpdates(subscriptions[s], deletedEntities, stores, currentTick)
       IN  /\ writer' = r.writer
           /\ subscriptions' = MapSet(subscriptions, s,
                  [r.sub EXCEPT !.received = Receive(subscriptions[s].received, r.writer)])
           /\ deletedEntities' = MarkSeen(deletedEntities, r.writer, s)
           /\ dupDelete' = (dupDelete \/ DeleteRepeated(deletedEntities, r.writer, s))
           /\ dupWrite' = (dupWrite \/ WriteRepeated(subscriptions[s].received, r.writer))
    /\ UNCHANGED <<playerEntityManager, stores, currentTick, profileCache,
                   pendingFetches, attached>>
    /\ UNCHANGED <<wrapperVars, adapterVars, fetchVars, profileVars, meshVars>>

GetUpdates == \E s \in SubscriptionIds : GetUpdatesOf(s)

\* dispose() of a subscription; the disposed subscription is not used again
SubscriptionDisposeOf(s) ==
    /\ MapHas(subscriptions, s)
    /\ subscriptions' = MapDelete(subscriptions, s)
    /\ playerEntityManager' = EmptyMap
    /\ profileCache' = EmptyMap
    /\ deletedEntities' = << >>
    /\ writer' = << >>
    /\ UNCHANGED <<stores, currentTick, pendingFetches, attached, dupDelete, dupWrite>>
    /\ UNCHANGED <<wrapperVars, adapterVars, fetchVars, profileVars, meshVars>>

SubscriptionDispose == \E s \in SubscriptionIds : SubscriptionDisposeOf(s)

\* dispose() of the controller
Dispose ==
    /\ attached' = FALSE
    /\ playerEntityManager' = EmptyMap
    /\ profileCache' = EmptyMap
    /\ deletedEntities' = << >>
    /\ writer' = << >>
    /\ UNCHANGED <<stores, currentTick, pendingFetches, subscriptions, dupDelete, dupWrite>>
    /\ UNCHANGED <<wrapperVars, adapterVars, fetchVars, profileVars, meshVars>>

(***************************************************************************)
(* Actions of the transport wrapper: the calls of its public methods, the  *)
(* settling of transport.connect(), and the arrival of a packet.           *)
(***************************************************************************)
Packets ==
    { [message |-> Undefined] }
    \cup { [message |-> [case |-> case, payload |-> payload]] :
             case \in Variants \cup UnknownVariants, payload \in Payloads }

\* the values of type proto.Packet sendMessage can be handed
Envelopes ==
    { Envelope(case, payload, 0) : case \in Variants, payload \in Payloads }
    \cup { [keys |-> keys, message |-> Undefined, protocolVersion |-> 0] :
             keys \in { {}, { "protocolVersion" }, { "message", "protocolVersion" } } }

Wrap(W, events, packets, error) ==
    /\ wrapper' = W
    /\ emitted' = events
    /\ forwarded' = packets
    /\ raised' = error
    /\ UNCHANGED <<controllerVars, adapterVars, fetchVars, profileVars, meshVars>>

Connect == Wrap(connect(wrapper), << >>, << >>, "")

ConnectResolved ==
    /\ wrapper.connecting > 0
    /\ Wrap(connectResolved(wrapper), << >>, << >>, "")

\* what transport.connect() rejects with
TransportErrors == { "e1", "e2" }

ConnectRejectedWith(e) ==
    LET r == connectRejected(wrapper, e)
    IN  /\ wrapper.connecting > 0
        /\ Wrap(r.wrapper, r.emitted, << >>, r.raised)

ConnectRejected == \E e \in TransportErrors : ConnectRejectedWith(e)

Disconnect == Wrap(disconnect(wrapper), << >>, << >>, "")

MessageReceivedWith(address, packet) ==
    LET r == handleMessage(wrapper, address, packet)
    IN  Wrap(r.wrapper, r.emitted, << >>, "")

MessageReceived ==
    \E address \in RawAddresses, packet \in Packets : MessageReceivedWith(address, packet)

Sent(r) == Wrap(wrapper, << >>, r.forwarded, r.raised)

SendPosition == \E position \in Payloads : Sent(sendPositionMessage(position))

SendParcelScene ==
    \E scene \in Payloads, destination \in Destinations :
        Sent(sendParcelSceneMessage(scene, destination))

SendProfile == \E profileVersion \in Payloads : Sent(sendProfileMessage(profileVersion))

SendProfileRequest ==
    \E profileRequest \in Payloads : Sent(sendProfileRequest(profileRequest))

SendProfileResponse ==
    \E profileResponse \in Payloads : Sent(sendProfileResponse(profileResponse))

SendChat == \E chat \in Payloads : Sent(sendChatMessage(chat))

SendVoice == \E voice \in Payloads : Sent(sendVoiceMessage(voice))

SendMessageWith(reliable, topicMessage, destination) ==
    Sent(sendMessage(reliable, topicMessage, destination))

SendMessageCalled ==
    \E reliable \in BOOLEAN, topicMessage \in Envelopes, destination \in Destinations :
        SendMessageWith(reliable, topicMessage, destination)

(***************************************************************************)
(* Actions of connectAdapter: a call, and the answer to its handshake.     *)
(***************************************************************************)
ConnectAdapterCalled ==
    /\ handshake.phase # "awaiting"
    /\ \E connStr \in ConnectionStrings, sceneId \in SceneIds :
          handshake' = connectAdapter(connStr, sceneId)
    /\ UNCHANGED <<controllerVars, wrapperVars, fetchVars, profileVars, meshVars>>

HandshakeAnsweredWith(result) ==
    /\ handshake.phase = "awaiting"
    /\ handshake' = connectAdapterResume(handshake, result)
    /\ UNCHANGED <<controllerVars, wrapperVars, fetchVars, profileVars, meshVars>>

HandshakeAnswered == \E result \in Responses : HandshakeAnsweredWith(result)

(***************************************************************************)
(* Actions of signedFetch: one call, with what Date.now() gave it.         *)
(***************************************************************************)
\* n nested objects, each under the key "a", around leaf
RECURSIVE ObjectChain(_, _)
ObjectChain(n, leaf) ==
    IF n = 0 THEN leaf
    ELSE JsonObject(<< Entry(<< "a" >>, ObjectChain(n - 1, leaf)) >>)

\* n nested arrays around leaf
RECURSIVE ArrayChain(_, _)
ArrayChain(n, leaf) == IF n = 0 THEN leaf ELSE JsonArray(<< ArrayChain(n - 1, leaf) >>)

\* a key of n characters
KeyOfLength(n) == [i \in 1 .. n |-> "k"]

\* an object of n keys of different lengths
ObjectOfKeys(n) == JsonObject([i \in 1 .. n |-> Entry(KeyOfLength(i), JsonNumberOf(i % 10))])

Leaves ==
    { JsonNull, JsonBoolean(TRUE), JsonNumberOf(1), JsonString(<< "G" >>),
      EmptyObject, JsonArray(<< >>) }

Proto == << "_", "_", "p", "r", "o", "t", "o", "_", "_" >>

MetadataValues ==
    { ObjectChain(n, leaf) : n \in 0 .. MaxChain, leaf \in Leaves }
    \cup { ObjectChain(1, ArrayChain(n, leaf)) :
             n \in 1 .. MaxChain, leaf \in { JsonNumberOf(1), EmptyObject } }
    \cup { JsonObject(<< Entry(Proto, JsonNumberOf(1)) >>),
           JsonObject(<< Entry(<< "a" >>,
                JsonArray(<< JsonObject(<< Entry(Proto, JsonNumberOf(1)),
                                           Entry(<< "b" >>, JsonNumberOf(1)) >>) >>)) >>),
           JsonObject(<< Entry(<< "c", "o", "n", "s", "t", "r", "u", "c", "t", "o", "r" >>,
                               ObjectChain(1, JsonNumberOf(1))),
                         Entry(<< "b" >>, JsonString(<< "G" >>)) >>),
           ObjectChain(2, JsonObject(<< Entry(<< "p", "r", "o", "t", "o", "t", "y", "p", "e" >>,
                                              JsonNull) >>)),
           JsonObject(<< Entry(KeyOfLength(MAX_KEY_LENGTH + 1), JsonNumberOf(1)),
                         Entry(KeyOfLength(MAX_KEY_LENGTH), JsonNumberOf(2)) >>),
           ObjectOfKeys(MAX_METADATA_KEYS + 1),
           JsonArray(<< JsonNumberOf(1) >>) }

\* text with blanks after it, up to n characters in all
PaddedTo(text, n) == text \o << Ws(n - length(text)) >>

MetadataTexts ==
    { stringify(value) : value \in MetadataValues }
    \cup { PaddedTo(stringify(value), n) :
             value \in { EmptyObject, ObjectChain(1, JsonNumberOf(1)) },
             n \in { MAX_METADATA_SIZE, MAX_METADATA_SIZE + 1 } }
    \cup { << >>,
           << Tok("{") >>,
           << Tok("{"), Str(<< "a" >>), Tok("}") >>,
           << Tok("{"), Str(<< "a" >>), Tok(":"), Num(1), Tok(","), Tok("}") >>,
           << Tok("["), Num(1), Tok(","), Tok("]") >>,
           << Tok("{"), Tok("}"), Tok("}") >>,
           << Word(<< "a" >>) >>,
           << Ws(1), Tok("{"), Ws(1), Str(<< "a" >>), Ws(1), Tok(":"), Ws(1),
              Tok("["), Ws(1), Tok("]"), Ws(1), Tok("}"), Ws(1) >> }

Methods == { Absent, Given(<< Word(<< "P", "O", "S", "T" >>) >>) }

Paths == { << Word(<< "/", "a" >>) >>, << Word(<< "/", "A" >>) >> }

Timestamps == 1 .. MaxTimestamp

\* the metadata of the callers: none, and that of the comms handshake
AdditionalMetadata ==
    { EmptyObject,
      JsonObject(<< Entry(<< "i", "s", "G", "u", "e", "s", "t" >>, JsonBoolean(FALSE)) >>) }

SignedFetchWith(path, init, additionalMetadata, timestamp) ==
    /\ signedRequest.phase = "idle"
    /\ signedRequest' = signedFetch(path, init, additionalMetadata, timestamp)
    /\ UNCHANGED <<controllerVars, wrapperVars, adapterVars, profileVars, meshVars>>

SignedFetchCalled ==
    \E path \in Paths, method \in Methods, metadata \in MetadataTexts,
       additionalMetadata \in AdditionalMetadata, timestamp \in Timestamps :
        SignedFetchWith(path, [method |-> method, metadata |-> Given(metadata)],
                        additionalMetadata, timestamp)

\* a call whose init has no metadata header
SignedFetchPlain ==
    \E path \in Paths, method \in Methods, timestamp \in Timestamps :
        SignedFetchWith(path, [method |-> method, metadata |-> Absent], EmptyObject, timestamp)

(***************************************************************************)
(* Actions of the profile system: the clock going on, lateUpdate and       *)
(* setAvatar.  calls is history: every lateUpdate call with its time, the  *)
(* version of the avatar it found (0 for none), whether it passed          *)
(* shouldDiscard and whether it sent.                                      *)
(***************************************************************************)
Steps == { 250, 400 }

ClockAdvances ==
    /\ \E d \in Steps : clock + d <= MaxClock /\ clock' = clock + d
    /\ UNCHANGED <<profileSystem, calls, controllerVars, wrapperVars, adapterVars, fetchVars, meshVars>>

LateUpdate ==
    LET r == lateUpdate(profileSystem, wrapper, clock)
    IN  /\ Len(calls) < MaxCalls
        /\ profileSystem' = r.system
        /\ forwarded' = r.forwarded
        /\ raised' = r.raised
        /\ emitted' = << >>
        /\ calls' = Append(calls,
               [at        |-> clock,
                version   |-> IF profileSystem.currentAvatar = Undefined THEN 0
                              ELSE profileSystem.currentAvatar.version,
                accepted  |-> r.accepted,
                sent      |-> r.forwarded # << >>])
        /\ UNCHANGED <<clock, wrapper, controllerVars, adapterVars, fetchVars, meshVars>>

SetAvatarTo(avatar) ==
    /\ profileSystem.currentAvatar # Undefined => profileSystem.currentAvatar.version < MaxVersion
    /\ profileSystem' = setAvatar(profileSystem, avatar)
    /\ UNCHANGED <<clock, calls, controllerVars, wrapperVars, adapterVars, fetchVars, meshVars>>

SetAvatar == \E avatar \in Avatars : SetAvatarTo(avatar)

\* a change of MeshCollider is applied to the entity: the value is added,
\* replaced or removed in the component storage and the callback runs
MeshColliderChangedTo(componentType, newValue) ==
    LET E == meshColliderComponent(sceneEntity, componentType, newValue)
    IN  /\ Len(E.meshes) <= MaxMeshes
        /\ \A i \in DOMAIN E.meshes : E.meshes[i].disposed <= MaxDisposals
        /\ sceneEntity' = E
        /\ UNCHANGED <<controllerVars, wrapperVars, adapterVars, fetchVars, profileVars>>

MeshColliderPut ==
    \E componentType \in ComponentTypes, newValue \in MeshColliderValues :
        MeshColliderChangedTo(componentType, newValue)

MeshColliderRemoved ==
    \E componentType \in ComponentTypes : MeshColliderChangedTo(componentType, NullValue)

\* the whole controller
Next ==
    \/ PeerConnected
    \/ PeerDisconnected
    \/ PositionReceived
    \/ MovementReceived
    \/ ProfileMessageReceived
    \/ ChatMessageReceived
    \/ FetchComplete
    \/ Update
    \/ CreateSubscription
    \/ GetUpdates
    \/ SubscriptionDispose
    \/ Dispose

Spec == Init /\ [][Next]_vars

(***************************************************************************)
(* The parts of the controller the properties are checked on.  Each takes  *)
(* the actions above unchanged and leaves some of them out.                *)
(***************************************************************************)
\* peers, their profiles and the disposal of the controller
NextProfiles ==
    \/ PeerConnected
    \/ PeerDisconnected
    \/ ProfileMessageReceived
    \/ ChatMessageReceived
    \/ FetchComplete
    \/ Dispose

SpecProfiles == Init /\ [][NextProfiles]_vars

\* announcements of profile versions, by PEER_CONNECTED or by the peers, and
\* the fetches they start
NextAnnouncements ==
    \/ PeerConnected
    \/ PeerDisconnected
    \/ ProfileMessageReceived
    \/ FetchComplete

SpecAnnouncements == Init /\ [][NextAnnouncements]_vars

\* peers met by PEER_CONNECTED only, and their profile fetches
NextConnections ==
    \/ PeerConnected
    \/ PeerDisconnected
    \/ FetchComplete

SpecConnections == Init /\ [][NextConnections]_vars

\* the six transport events, with a profile directory that cannot be reached
NextPeers ==
    \/ PeerConnected
    \/ PeerDisconnected
    \/ PositionReceived
    \/ MovementReceived
    \/ ProfileMessageReceived
    \/ ChatMessageReceived
    \/ FetchFailed

SpecPeers == Init /\ [][NextPeers]_vars

\* peers first known by a connect, a position, a movement or a chat, and
\* their disconnects
NextSightings ==
    \/ PeerConnected
    \/ PeerDisconnected
    \/ PositionReceived
    \/ MovementReceived
    \/ ChatMessageReceived

SpecSightings == Init /\ [][NextSightings]_vars

\* entities coming and going, the frame tick and the subscribers' pulls
NextSync ==
    \/ PositionReceived
    \/ PeerDisconnected
    \/ Update
    \/ CreateSubscription
    \/ GetUpdates

SpecSync == Init /\ [][NextSync]_vars

\* one subscriber and everything that writes the Transform store
NextSubscriber ==
    \/ PositionReceived
    \/ MovementReceived
    \/ PeerDisconnected
    \/ Update
    \/ CreateSubscriptionOf("s1")
    \/ GetUpdatesOf("s1")

SpecSubscriber == Init /\ [][NextSubscriber]_vars

\* changes of the MeshCollider component of one entity
NextMeshCollider ==
    \/ MeshColliderPut
    \/ MeshColliderRemoved

SpecMeshCollider == Init /\ [][NextMeshCollider]_vars

\* the same as SpecSync with subscriptions being disposed
NextDisposal ==
    \/ PositionReceived
    \/ PeerDisconnected
    \/ Update
    \/ CreateSubscription
    \/ GetUpdates
    \/ SubscriptionDispose

SpecDisposal == Init /\ [][NextDisposal]_vars

\* the six transport events, the profile fetches and the disposal of the controller
NextLifecycle ==
    \/ PeerConnected
    \/ PeerDisconnected
    \/ PositionReceived
    \/ MovementReceived
    \/ ProfileMessageReceived
    \/ ChatMessageReceived
    \/ FetchComplete
    \/ Dispose

SpecLifecycle == Init /\ [][NextLifecycle]_vars

\* the transport wrapper through its public methods
NextWrapper ==
    \/ Connect
    \/ ConnectResolved
    \/ ConnectRejected
    \/ Disconnect
    \/ MessageReceived
    \/ SendPosition
    \/ SendParcelScene
    \/ SendProfile
    \/ SendProfileRequest
    \/ SendProfileResponse
    \/ SendChat
    \/ SendVoice

SpecWrapper == Init /\ [][NextWrapper]_vars

\* sendMessage over the values of its parameter types, in any connection state
NextEnvelope ==
    \/ Connect
    \/ ConnectResolved
    \/ ConnectRejected
    \/ Disconnect
    \/ SendMessageCalled

SpecEnvelope == Init /\ [][NextEnvelope]_vars

\* connectAdapter over connection strings and handshake answers
NextAdapter ==
    \/ ConnectAdapterCalled
    \/ HandshakeAnswered

SpecAdapter == Init /\ [][NextAdapter]_vars

\* signedFetch over methods, paths, timestamps and metadata headers
NextSignedFetch ==
    \/ SignedFetchCalled
    \/ SignedFetchPlain

SpecSignedFetch == Init /\ [][NextSignedFetch]_vars

\* the profile system on a transport that connects, or fails to
NextProfileSystem ==
    \/ ClockAdvances
    \/ LateUpdate
    \/ SetAvatar
    \/ Connect
    \/ ConnectResolved
    \/ ConnectRejected

SpecProfileSystem == Init /\ [][NextProfileSystem]_vars

(***************************************************************************)
(* Properties.                                                             *)
(***************************************************************************)
\* the entity a peer address owns in the allocation table, Null when none
EntityOf(address) == getEntityForAddress(playerEntityManager, address)

\* how many suspended announcements equal to fetch there are
Pending(fetches, fetch) == IF MapHas(fetches, fetch) THEN fetches[fetch] ELSE 0

\* C1: for every address, the version of its profile cache entry never
\* decreases while the entry exists, whatever the order in which
\* announcements arrive and fetches complete.
C1_CacheVersionNeverDecreases ==
    [][\A a \in (DOMAIN profileCache) \cap (DOMAIN profileCache') :
           profileCache'[a].version >= profileCache[a].version]_vars

\* C2: for every subscription and every removal of an entity, the
\* subscription's getUpdates calls write the DELETE record of that removal at
\* most once, whatever the other subscriptions have pulled.
C2_DeleteWrittenAtMostOnce == ~dupDelete

\* both subscriptions have been written the DELETE of one removal, and a frame
\* has passed since
C2_Witness ==
    \E i \in DOMAIN deletedEntities :
        /\ deletedEntities[i].seenBy = SubscriptionIds
        /\ currentTick > deletedEntities[i].tick

\* C3: every removal of an entity is written as a DELETE record by some later
\* getUpdates call of every subscription: no tombstone a subscription has not
\* been written is at or below that subscription's last delete tick.
C3_NoRemovalMissed ==
    \A s \in DOMAIN subscriptions, i \in DOMAIN deletedEntities :
        \/ s \in deletedEntities[i].seenBy
        \/ deletedEntities[i].tick > subscriptions[s].lastDeleteTick

\* C4: each of two subscriptions pulling at different times receives every
\* accepted write exactly once relative to its own cursor: no write is
\* exported twice to a subscription, and every write at or below a
\* subscription's cursor is the one it received last for that entity.
C4_EveryWriteExactlyOnce ==
    /\ ~dupWrite
    /\ \A s \in DOMAIN subscriptions, c \in listOfComponentsToSynchronize :
          \A e \in DOMAIN stores[c].rev :
              stores[c].rev[e] <= subscriptions[s].state[c]
                  => /\ MapHas(subscriptions[s].received, <<c, e>>)
                     /\ subscriptions[s].received[<<c, e>>] = stores[c].rev[e]

\* the two subscriptions stand at different revisions of the Transform store,
\* each having received a write of it, after a frame update
C4_Witness ==
    /\ DOMAIN subscriptions = SubscriptionIds
    /\ currentTick > 0
    /\ \E s, t \in SubscriptionIds :
          /\ subscriptions[s].state["Transform"] = 1
          /\ subscriptions[t].state["Transform"] = 2
          /\ \E e \in DOMAIN stores["Transform"].rev :
                /\ subscriptions[s].received[<<"Transform", e>>] = 1
                /\ subscriptions[t].received[<<"Transform", e>>] = 2

\* what the records of out leave a consumer with for (component, entity), given
\* that value is the store's current value: when the write is newer than the
\* cursor the value is put and nothing after it deletes or replaces it; when
\* the consumer has the value already, nothing deletes the entity
LeavesValue(out, component, entity, value, revision, newer) ==
    IF newer
    THEN \E i \in DOMAIN out :
            /\ out[i] = [kind |-> "PUT_COMPONENT", component |-> component,
                         entityId |-> entity, revision |-> revision, value |-> value]
            /\ \A j \in DOMAIN out :
                  j > i => /\ ~(out[j].kind = "DELETE_ENTITY" /\ out[j].entityId = entity)
                           /\ ~(out[j].kind # "DELETE_ENTITY" /\ out[j].entityId = entity
                                /\ out[j].component = component)
    ELSE \A j \in DOMAIN out :
            ~(out[j].kind = "DELETE_ENTITY" /\ out[j].entityId = entity)

\* C5: when an entity is removed and its id is written again before a
\* subscription's next getUpdates, what that call writes leaves the entity
\* with the new value (the DELETE record comes before the component deltas),
\* and the DELETE is still written at most once to the subscription.
C5_RecreatedEntityKeepsValue ==
    [][\A s \in SubscriptionIds :
           GetUpdatesOf(s) =>
               /\ ~dupDelete'
               /\ \A c \in listOfComponentsToSynchronize :
                     \A e \in DOMAIN stores[c].data :
                         LeavesValue(writer', c, e, stores[c].data[e], stores[c].rev[e],
                                     stores[c].rev[e] > subscriptions[s].state[c])]_vars

\* one call wrote the DELETE of an entity and, after it, the value the entity
\* was given again
C5_Witness ==
    \E i, j \in DOMAIN writer :
        /\ i < j
        /\ writer[i].kind = "DELETE_ENTITY"
        /\ writer[j].kind = "PUT_COMPONENT"
        /\ writer[j].component = "Transform"
        /\ writer[j].entityId = writer[i].entityId

\* C6: after two writes of one entity with no export in between, an export
\* from a cursor older than both carries one record for the entity, with the
\* second value; and every write gets a revision strictly greater than every
\* revision the store had given before.
C6_LastWriteAndRevision ==
    [][/\ \A c \in listOfComponentsToSynchronize :
             /\ stores'[c].revision >= stores[c].revision
             /\ \A e \in DOMAIN stores'[c].data :
                   (\/ ~MapHas(stores[c].data, e)
                    \/ stores'[c].rev[e] # stores[c].rev[e])
                       => /\ stores'[c].rev[e] > stores[c].revision
                          /\ stores'[c].rev[e] = stores'[c].revision
       /\ \A s \in SubscriptionIds :
             GetUpdatesOf(s) =>
                 \A c \in listOfComponentsToSynchronize :
                     \A e \in DOMAIN stores[c].data :
                         stores[c].rev[e] > subscriptions[s].state[c]
                             => \E i \in DOMAIN writer' :
                                   /\ writer'[i].kind = "PUT_COMPONENT"
                                   /\ writer'[i].component = c
                                   /\ writer'[i].entityId = e
                                   /\ writer'[i].value = stores[c].data[e]
                                   /\ \A j \in DOMAIN writer' :
                                         (/\ writer'[j].kind # "DELETE_ENTITY"
                                          /\ writer'[j].component = c
                                          /\ writer'[j].entityId = e) => j = i]_vars

\* an entity written twice is exported to a subscription that had received
\* neither write: the one record carries the second revision
C6_Witness ==
    \E s \in DOMAIN subscriptions, i \in DOMAIN writer :
        /\ writer[i].kind = "PUT_COMPONENT"
        /\ writer[i].component = "Transform"
        /\ writer[i].revision = 2
        /\ DOMAIN stores["Transform"].rev = {writer[i].entityId}
        /\ deletedEntities = << >>
        /\ DOMAIN subscriptions = {s}
        /\ \E j \in DOMAIN writer :
              /\ writer[j].kind = "PUT_COMPONENT"
              /\ writer[j].component = "PlayerIdentityData"
              /\ writer[j].entityId = writer[i].entityId

\* C7: the relation between peers and entities is one-to-one: no two keys of
\* the allocation table are the same address up to letter case, no two keys
\* hold the same entity, and every entity is one of the remote range.
C7_PeersAndEntitiesOneToOne ==
    \A k1, k2 \in DOMAIN playerEntityManager :
        /\ toLowerCase(k1) = toLowerCase(k2) => k1 = k2
        /\ playerEntityManager[k1] = playerEntityManager[k2] => k1 = k2
        /\ playerEntityManager[k1] \in RangeStart .. (RangeEnd - 1)

\* two peers hold an entity each, one met by its PEER_CONNECTED (its profile is
\* being fetched), the other by a position of its own
C7_Witness ==
    /\ Cardinality(DOMAIN playerEntityManager) = 2
    /\ \E k1, k2 \in DOMAIN playerEntityManager :
          /\ k1 # k2
          /\ \E fetch \in DOMAIN pendingFetches : fetch.entity = playerEntityManager[k1]
          /\ MapHas(stores["Transform"].data, playerEntityManager[k2])

\* C8: after PEER_DISCONNECTED for a tracked peer, its address given in any
\* letter case, the four stores have the entity marked deleted with no data,
\* the tombstone (entity, currentTick) is recorded, the address maps to no
\* entity, and the profile cache has no entry for the normalized address.
C8_DisconnectReleasesPeer ==
    [][\A a \in RawAddresses :
           (EntityOf(a) # Null /\ PeerDisconnectedFrom(a)) =>
               /\ \A c \in listOfComponentsToSynchronize :
                     /\ EntityOf(a) \in stores'[c].deleted
                     /\ ~MapHas(stores'[c].data, EntityOf(a))
               /\ \E i \in DOMAIN deletedEntities' :
                     /\ deletedEntities'[i].entityId = EntityOf(a)
                     /\ deletedEntities'[i].tick = currentTick
               /\ getEntityForAddress(playerEntityManager', a) = Null
               /\ EntityOf(a) \notin RangeOf(playerEntityManager')
               /\ ~MapHas(profileCache', normalizeAddress(a))]_vars

\* a peer whose profile had been fetched and applied has been disconnected
C8_Witness ==
    \E i \in DOMAIN deletedEntities :
        LET e == deletedEntities[i].entityId
        IN  /\ e \notin RangeOf(playerEntityManager)
            /\ MapHas(stores["AvatarBase"].rev, e)
            /\ \A c \in listOfComponentsToSynchronize : e \in stores[c].deleted
            /\ profileCache = EmptyMap
            /\ attached

\* C9: an entity id never becomes free for another address before every
\* store has marked the entity deleted: whenever a step of the live
\* controller takes an entity from its address, the four stores have it
\* marked deleted.
C9_FreedOnlyWhenMarkedDeleted ==
    [][\A k \in DOMAIN playerEntityManager :
           (attached' /\ ~MapHas(playerEntityManager', k)) =>
               \A c \in listOfComponentsToSynchronize :
                   playerEntityManager[k] \in stores'[c].deleted]_vars

\* the peer of a fetch no longer holds the entity the fetch was started for,
\* or the controller has been disposed
Stale(fetch) == ~attached \/ EntityOf(fetch.address) # fetch.entity

\* C10: a profile fetch that completes after its peer has disconnected, or
\* after the controller has been disposed, writes no component value and
\* creates no profile cache entry.
C10_LateFetchDiscarded ==
    [][\A fetch \in DOMAIN pendingFetches :
           (Pending(pendingFetches', fetch) < pendingFetches[fetch] /\ Stale(fetch))
               => (stores' = stores /\ profileCache' = profileCache)]_vars

\* a transport event is delivered to the controller, or dispose() is called
TransportEventOrDispose ==
    \/ PeerConnected
    \/ PeerDisconnected
    \/ PositionReceived
    \/ MovementReceived
    \/ ProfileMessageReceived
    \/ ChatMessageReceived
    \/ Dispose

\* C11: once the controller has been disposed its handlers are detached and
\* the allocation table, the profile cache and the tombstone map are empty;
\* after it, no transport event and no further dispose() changes the
\* controller.
C11_DisposeReleasesAndDetaches ==
    [][/\ ~attached' =>
             /\ playerEntityManager' = EmptyMap
             /\ profileCache' = EmptyMap
             /\ deletedEntities' = << >>
       /\ (~attached /\ TransportEventOrDispose) =>
             UNCHANGED <<playerEntityManager, profileCache, deletedEntities, attached,
                         stores, pendingFetches>>]_vars

\* C12: a tombstone is not removed from the tombstone map of the live
\* controller while some active subscription has not been written its DELETE
\* record.
C12_TombstoneKeptUntilObserved ==
    [][\A i \in DOMAIN deletedEntities :
           (/\ attached'
            /\ \A j \in DOMAIN deletedEntities' :
                  deletedEntities'[j].entityId # deletedEntities[i].entityId)
               => \A s \in DOMAIN subscriptions' : s \in deletedEntities[i].seenBy]_vars

\* the values the connection status of a wrapper may have been given, in order
ConnectHistories ==
    { << "NONE" >>, << "NONE", "CONNECTING" >>,
      << "NONE", "CONNECTING", "CONNECTED" >>,
      << "NONE", "CONNECTING", "DISCONNECTED" >> }

\* C13: connect() is idempotent: called in a state other than NONE it changes
\* nothing, so transport.connect() is invoked at most once and the state
\* passes NONE, CONNECTING, CONNECTED at most once each, in that order.
C13_ConnectIdempotent ==
    [][/\ (wrapper.state # "NONE" /\ Connect) => wrapper' = wrapper
       /\ wrapper'.transport.connects <= 1
       /\ wrapper'.connecting <= 1
       /\ wrapper'.history \in ConnectHistories
       /\ wrapper'.state = wrapper'.history[Len(wrapper'.history)]]_vars

\* the connection has been made, in one attempt
C13_Witness ==
    /\ wrapper.state = "CONNECTED"
    /\ wrapper.history = << "NONE", "CONNECTING", "CONNECTED" >>
    /\ wrapper.transport.connects = 1
    /\ wrapper.connecting = 0

\* C14: disconnect() called on the wrapper leaves its connection status
\* DISCONNECTED.
C14_DisconnectSetsStatus ==
    [][Disconnect => wrapper'.state = "DISCONNECTED"]_vars

\* C15: a received packet without a message emits no event and raises no
\* error; a packet with one of the seven variants emits exactly one event, on
\* the channel of its variant, with the sender's address and the payload.
C15_OneEventPerPacket ==
    [][\A address \in RawAddresses, packet \in Packets :
           MessageReceivedWith(address, packet) =>
               /\ raised' = ""
               /\ packet.message = Undefined => emitted' = << >>
               /\ (packet.message # Undefined /\ packet.message.case \in Variants) =>
                     emitted' = << [channel |-> ChannelOf(packet.message.case),
                                    address |-> address,
                                    data |-> packet.message.payload] >>]_vars

\* a profile version announcement has been dispatched
C15_Witness ==
    /\ Len(emitted) = 1
    /\ emitted[1].channel = "profileMessage"
    /\ emitted[1].address = << "A", "1" >>

C17_OnlyChatReliable ==
    \A i \in DOMAIN forwarded :
        /\ forwarded[i].reliable <=> forwarded[i].bytes.message.case = "chat"
        /\ forwarded[i].bytes.message.case # "scene" => forwarded[i].destination = << >>

\* a chat message has been forwarded, reliably and to everyone
C17_Witness ==
    /\ Len(forwarded) = 1
    /\ forwarded[1].bytes.message.case = "chat"
    /\ forwarded[1].reliable
    /\ forwarded[1].destination = << >>

\* a signed-login handshake has been answered
Answered == handshake.phase = "done" /\ handshake.requests # << >>

\* the body of the answer is an object, and its field has a string
HasString(json, field) == json.type = "object" /\ json[field].type = "string"

\* text has str in it, token for token
Contains(text, str) ==
    \E i \in 1 .. (Len(text) - Len(str) + 1) : SubSeq(text, i, i + Len(str) - 1) = str

\* fixedAdapter of the answer is a string naming another signed-login
Recursive(json) ==
    /\ HasString(json, "fixedAdapter")
    /\ startsWith(json.fixedAdapter.value, << "signed-login", ":" >>)

\* C18: when the answer to a signed-login handshake is ok and its fixedAdapter
\* is a string that is not a signed-login descriptor, connectAdapter returns
\* an adapter whose single desired transport is that fixedAdapter, whether or
\* not the answer has a message too.
C18_FixedAdapterBeforeMessage ==
    (/\ Answered
     /\ handshake.response.ok
     /\ HasString(handshake.response.json, "fixedAdapter")
     /\ ~Recursive(handshake.response.json))
        => handshake.outcome =
               Adapter(handshake.response.json.fixedAdapter.value, handshake.sceneId)

\* an answer with both a usable fixedAdapter and a message gave the adapter
C18_Witness ==
    /\ Answered
    /\ handshake.response.ok
    /\ HasString(handshake.response.json, "message")
    /\ HasString(handshake.response.json, "fixedAdapter")
    /\ handshake.outcome.kind = "adapter"
    /\ handshake.outcome.desiredTransports[1].url = << "livekit", ":", "x" >>

\* C19: when a signed-login handshake fails and the answer carries a string
\* message, the error thrown contains that message verbatim; the generic
\* errors are thrown only when the answer has no message.
C19_MessageSurfaced ==
    (/\ Answered
     /\ handshake.outcome.kind = "error"
     /\ HasString(handshake.response.json, "message"))
        => /\ Contains(handshake.outcome.text, handshake.response.json.message.value)
           /\ handshake.outcome.text \notin { AnotherRealmError, UnknownError }

\* C20: an answer whose fixedAdapter is itself a signed-login descriptor never
\* gives an adapter: connectAdapter throws, having made the one handshake
\* request and no second one.
C20_RecursiveSignedLoginRejected ==
    (Answered /\ Recursive(handshake.response.json))
        => /\ handshake.outcome.kind = "error"
           /\ handshake.requests = << SubSeq(handshake.connStr, 3, Len(handshake.connStr)) >>

\* an ok answer naming another signed-login server has been refused
C20_Witness ==
    /\ Answered
    /\ handshake.response.ok
    /\ Recursive(handshake.response.json)
    /\ handshake.outcome = Thrown(UnknownError)

\* connectAdapter has been called, and this is the call
Called == handshake.phase # "idle"

\* the protocol tag connectAdapter reads off connStr: what precedes the first
\* ":", and the empty string when there is none
ProtocolOf(connStr) == SubSeq(connStr, 1, indexOf(connStr, ":") - 1)

\* the protocol tags connectAdapter has a case for
KnownProtocols ==
    { << "livekit" >>, << "offline" >>, << "ws-room" >>, << "signed-login" >> }

\* C21: connectAdapter called with a descriptor whose protocol tag is none of
\* livekit, ws-room, offline and signed-login (a descriptor without ":" has
\* the empty tag) ends at once with the error naming that tag, gives no
\* adapter and makes no network request.
C21_UnknownProtocolRejected ==
    (Called /\ ProtocolOf(handshake.connStr) \notin KnownProtocols)
        => /\ handshake.phase = "done"
           /\ handshake.outcome = Thrown(ProtocolError(ProtocolOf(handshake.connStr)))
           /\ handshake.outcome.kind # "adapter"
           /\ handshake.requests = << >>

\* a descriptor without ":" has been refused, naming the empty protocol
C21_Witness ==
    /\ Called
    /\ handshake.connStr = << "offline" >>
    /\ handshake.outcome.kind = "error"
    /\ handshake.outcome.text = ProtocolError(<< >>)

\* C22: for a livekit or ws-room descriptor connectAdapter gives an adapter
\* with exactly one desired transport, whose url is the whole descriptor; for
\* an offline descriptor exactly one with the empty url; each carries the
\* sceneId of the call, and no network request is made.
C22_DescriptorPassedThrough ==
    (Called /\ ProtocolOf(handshake.connStr) \in
                   { << "livekit" >>, << "ws-room" >>, << "offline" >> })
        => /\ handshake.phase = "done"
           /\ handshake.outcome.kind = "adapter"
           /\ Len(handshake.outcome.desiredTransports) = 1
           /\ handshake.outcome.desiredTransports[1].url =
                  (IF ProtocolOf(handshake.connStr) = << "offline" >>
                   THEN << >> ELSE handshake.connStr)
           /\ handshake.outcome.desiredTransports[1].sceneId = handshake.sceneId
           /\ handshake.requests = << >>

\* a ws-room descriptor came back whole as the one desired transport
C22_Witness ==
    /\ Called
    /\ handshake.connStr = << "ws-room", ":", "x" >>
    /\ handshake.outcome = Adapter(<< "ws-room", ":", "x" >>, "scene1")
    /\ handshake.requests = << >>

\* signedFetch has been called, and this is the call
FetchCalled == signedRequest.phase # "idle"

\* the payload the signer was handed
PayloadSigned == signedRequest.headers.authChain[2].payload

\* C23: the string handed to the signer is method:path:timestamp:metadataJSON
\* with method and path in lower case and the metadata JSON exactly as it is
\* sent in the x-identity-metadata header.
C23_MetadataSignedAsSent ==
    signedRequest.phase = "sent"
        => PayloadSigned =
               join(<< toLowerCaseText(signedRequest.method),
                       toLowerCaseText(signedRequest.path),
                       toString(signedRequest.timestamp),
                       signedRequest.headers.metadata >>, << Tok(":") >>)

\* the metadata header of init is longer than the limit
Oversize(text) == length(text) > MAX_METADATA_SIZE

\* the metadata header of init is the JSON text of an object
ObjectText(text) == parse(text).ok /\ parse(text).value.type = "object"

\* C24: safeParseMetadata never raises: it returns the empty object for a
\* text that is too long, that JSON.parse refuses or whose root is no plain
\* object, and an object for every other text.
C24_SanitizeNeverRaises ==
    FetchCalled
        => /\ signedRequest.parsed.kind = "return"
           /\ signedRequest.parsed.value.type = "object"
           /\ (Oversize(signedRequest.initMetadata) \/ ~ObjectText(signedRequest.initMetadata))
                  => signedRequest.parsed.value = EmptyObject

\* the text of a non-empty object, too long by one blank, gave the empty object
C24_Witness ==
    /\ signedRequest.phase = "sent"
    /\ length(signedRequest.initMetadata) = MAX_METADATA_SIZE + 1
    /\ ObjectText(signedRequest.initMetadata)
    /\ parse(signedRequest.initMetadata).value # EmptyObject
    /\ signedRequest.parsed = Returned(EmptyObject)

\* value has a deny-listed key, at any depth
RECURSIVE HasDangerousKey(_)
HasDangerousKey(value) ==
    CASE value.type = "object" ->
            \E i \in DOMAIN value.entries :
                \/ value.entries[i].key \in DANGEROUS_KEYS
                \/ HasDangerousKey(value.entries[i].value)
      [] value.type = "array" ->
            \E i \in DOMAIN value.items : HasDangerousKey(value.items[i])
      [] OTHER -> FALSE

\* C25: the sanitized metadata has no deny-listed key (__proto__, constructor,
\* prototype) at any depth, objects inside arrays included.
C25_NoDangerousKey ==
    FetchCalled => ~HasDangerousKey(signedRequest.parsed.value)

\* __proto__ was taken out of an object inside an array, its other key kept
C25_Witness ==
    /\ signedRequest.phase = "sent"
    /\ ObjectText(signedRequest.initMetadata)
    /\ HasDangerousKey(parse(signedRequest.initMetadata).value)
    /\ signedRequest.parsed.value =
           JsonObject(<< Entry(<< "a" >>,
               JsonArray(<< JsonObject(<< Entry(<< "b" >>, JsonNumberOf(1)) >>) >>)) >>)

Greatest(S) == CHOOSE n \in S : \A m \in S : m <= n

\* the depth of the deepest object or array of value, value being at depth
\* d; -1 when value is neither
RECURSIVE DeepestContainer(_, _)
DeepestContainer(value, d) ==
    CASE value.type = "object" ->
            Greatest({ d } \cup { DeepestContainer(value.entries[i].value, d + 1) :
                                    i \in DOMAIN value.entries })
      [] value.type = "array" ->
            Greatest({ d } \cup { DeepestContainer(value.items[i], d + 1) :
                                    i \in DOMAIN value.items })
      [] OTHER -> -1

\* C26: the sanitized metadata has no object and no array deeper than
\* MAX_NESTING_DEPTH = 3, the root object being at depth 0.
C26_DepthWithinMaximum ==
    FetchCalled => DeepestContainer(signedRequest.parsed.value, 0) <= MAX_NESTING_DEPTH

\* out has, wherever the sanitizer went through before, the primitives of
\* before: under the keys out kept and at the places of the arrays it kept
RECURSIVE Preserved(_, _)
Preserved(before, out) ==
    CASE IsPrimitive(before) -> out = before
      [] before.type = "array" ->
            out.type = "array" =>
                /\ Len(out.items) = Len(before.items)
                /\ \A i \in DOMAIN before.items : Preserved(before.items[i], out.items[i])
      [] before.type = "object" ->
            /\ out.type = "object"
            /\ \A i \in DOMAIN out.entries :
                  /\ HasKey(before, out.entries[i].key)
                  /\ Preserved(GetKey(before, out.entries[i].key), out.entries[i].value)
      [] OTHER -> TRUE

\* C27: every null, boolean, number and string the sanitizer visits under a
\* key it keeps comes out unchanged, at whatever depth it was.
C27_PrimitivesPassThrough ==
    (/\ FetchCalled
     /\ ~Oversize(signedRequest.initMetadata)
     /\ ObjectText(signedRequest.initMetadata))
        => Preserved(parse(signedRequest.initMetadata).value, signedRequest.parsed.value)

\* the shortest time between two broadcasts, in milliseconds
MinimumInterval == 1000 \div MAX_AVATARS_PER_SECOND

\* C28: the profile broadcast is capped at 2 per second under any
\* interleaving of lateUpdate and setAvatar: any two announcements sent are
\* at least 500 ms apart, and an announcement is sent only by a call that
\* passed the cap, at the time of that call (a discarded call sends nothing
\* later).
C28_BroadcastCapped ==
    /\ \A i, j \in DOMAIN calls :
          (i < j /\ calls[i].sent /\ calls[j].sent)
              => calls[j].at - calls[i].at >= MinimumInterval
    /\ \A i \in DOMAIN calls : calls[i].sent => calls[i].accepted

\* the calls were made with one avatar on a CONNECTED transport, the first of
\* them accepted, each d milliseconds after the one before
SpacedBy(d) ==
    /\ calls # << >>
    /\ calls[1].accepted /\ calls[1].sent
    /\ \A i \in DOMAIN calls : calls[i].version = calls[1].version
    /\ \A i \in 2 .. Len(calls) : calls[i].at - calls[i - 1].at = d

Accepted == SelectSeq(calls, LAMBDA call : call.accepted)

\* C29: with an avatar set and the transport CONNECTED, lateUpdate calls
\* spaced by a constant time of less than 500 ms, the first accepted at
\* elapsed 0, give exactly floor(elapsedMs / 500) + 1 accepted broadcasts,
\* elapsedMs being the time of the last call.
C29_AcceptedCount ==
    \A d \in 1 .. (MinimumInterval - 1) :
        SpacedBy(d) =>
            Len(Accepted) = ((calls[Len(calls)].at - calls[1].at) \div MinimumInterval) + 1

\* the fetch that the announcement of version 1 for address starts
InitialFetch(entity, address) ==
    [entity |-> entity, address |-> address, announcedVersion |-> 1]

\* C30: PEER_CONNECTED leaves the normalized address with an entity, the one
\* it had if it had one, and within the same step the profileMessage of
\* version 1 for the normalized address has been handled: when nothing is
\* cached for that address, one more profile fetch for it is in flight.
C30_ConnectAnnouncesVersionOne ==
    [][\A a \in RawAddresses :
           PeerConnectedFrom(a) =>
               LET address == normalizeAddress(a)
                   entity  == getEntityForAddress(playerEntityManager', address)
               IN  /\ EntityOf(address) # Null => entity = EntityOf(address)
                   /\ entity # Null =>
                         /\ entity \in RangeStart .. (RangeEnd - 1)
                         /\ ~MapHas(profileCache, address) =>
                               Pending(pendingFetches', InitialFetch(entity, address))
                                   = Pending(pendingFetches, InitialFetch(entity, address)) + 1
                         /\ \A fetch \in DOMAIN pendingFetches' :
                               Pending(pendingFetches', fetch) # Pending(pendingFetches, fetch)
                                   => fetch = InitialFetch(entity, address)]_vars

\* a peer connected as "A1" has its fetch of version 1 in flight under its
\* normalized address, another peer's profile being cached already
C30_Witness ==
    /\ EntityOf(<< "A", "1" >>) # Null
    /\ MapHas(pendingFetches, InitialFetch(EntityOf(<< "A", "1" >>), << "a", "1" >>))
    /\ ~MapHas(profileCache, << "a", "1" >>)
    /\ MapHas(profileCache, << "b", "2" >>)

\* the version announced does not exceed the version cached for the address
NotNewer(a, v) ==
    /\ MapHas(profileCache, normalizeAddress(a))
    /\ profileCache[normalizeAddress(a)].version >= v

\* C31: a profile-version announcement whose version does not exceed the
\* version cached for the address starts no fetch and leaves the profile cache
\* as it is; it leaves every component store as it is too when the sender has
\* its entity already, and for a sender not seen before it changes nothing
\* but what the allocation of its entity writes (the entity and its first
\* PlayerIdentityData).
C31_KnownVersionIgnored ==
    [][\A a \in RawAddresses, v \in ProfileVersions :
           (NotNewer(a, v) /\ ProfileMessageFrom(a, v)) =>
               /\ pendingFetches' = pendingFetches
               /\ profileCache' = profileCache
               /\ EntityOf(a) # Null =>
                     (stores' = stores /\ playerEntityManager' = playerEntityManager)
               /\ \A c \in listOfComponentsToSynchronize \ { "PlayerIdentityData" } :
                     stores'[c] = stores[c]]_vars

\* the state an ignored announcement starts and ends in: the newest profile of
\* a peer is cached and applied to its entity, and no fetch is in flight
C31_Witness ==
    /\ NotNewer(<< "A", "1" >>, 2)
    /\ EntityOf(<< "A", "1" >>) # Null
    /\ MapHas(stores["AvatarBase"].data, EntityOf(<< "A", "1" >>))
    /\ stores["AvatarBase"].data[EntityOf(<< "A", "1" >>)].version = 2
    /\ ENABLED ProfileMessageFrom(<< "A", "1" >>, 2)
    /\ pendingFetches = EmptyMap

\* the fetch gave nothing to apply: it threw, it had no profile, or the
\* profile is older than the version announced
NothingToApply(fetch, outcome) ==
    \/ outcome.threw
    \/ ~outcome.defined
    \/ outcome.version < fetch.announcedVersion

\* C32: when a profile fetch fails (request error, response not ok, empty
\* result) or gives a profile older than the version announced, the profile
\* cache and the component stores are left as they were, and the handler's
\* promise resolves: no error goes out of it.
C32_FailedFetchChangesNothing ==
    [][\A fetch \in DOMAIN pendingFetches, outcome \in FetchOutcomes :
           (NothingToApply(fetch, outcome) /\ FetchCompleteWith(fetch, outcome)) =>
               /\ profileCache' = profileCache
               /\ stores' = stores
               /\ playerEntityManager' = playerEntityManager
               /\ AnnouncementSettles(fetch, outcome) = "resolved"]_vars

\* a peer has its entity and its fetch has settled, and there is still no
\* profile of it: nothing cached, no appearance written
C32_Witness ==
    /\ EntityOf(<< "b", "2" >>) # Null
    /\ pendingFetches = EmptyMap
    /\ profileCache = EmptyMap
    /\ deletedEntities = << >>
    /\ stores["AvatarBase"].revision = 0
    /\ stores["AvatarEquippedData"].revision = 0
    /\ stores["PlayerIdentityData"].data[EntityOf(<< "b", "2" >>)].isGuest

\* one of the five events that make a peer known arrives from address a
SightingOf(a) ==
    \/ PeerConnectedFrom(a)
    \/ ChatMessageFrom(a)
    \/ \E p \in Positions : PositionFrom(a, p) \/ MovementFrom(a, p)
    \/ \E v \in ProfileVersions : ProfileMessageFrom(a, v)

\* an allocation table with every id of the remote range taken, by peers
\* other than those of RawAddresses
FullTable ==
    [k \in { << "x", e >> : e \in RangeStart .. (RangeEnd - 1) } |-> k[2]]

\* the five handlers called on controller C with an event from address a
Sightings(C, a) ==
    { handlePeerConnected(C, [address |-> a]), handleChatMessage(C, [address |-> a]) }
    \cup { handlePosition(C, [address |-> a, data |-> [position |-> p]]) : p \in Positions }
    \cup { handleMovement(C, [address |-> a, data |-> [position |-> p]]) : p \in Positions }
    \cup { handleProfileMessage(C, [address |-> a, data |-> [profileVersion |-> v]]) :
             v \in ProfileVersions }

\* a connect, position, movement, profile announcement or chat of a peer
\* without entity gives it an entity no peer holds, with the first
\* PlayerIdentityData of its normalized address and isGuest true; one of a
\* peer with an entity leaves the allocation table as it is
FirstSightingAllocates ==
    \A a \in RawAddresses : \A after \in Sightings(Ctl, a) :
        LET entity == getEntityForAddress(after.pem, a)
        IN  IF EntityOf(a) = Null
            THEN /\ entity # Null
                 /\ entity \notin RangeOf(playerEntityManager)
                 /\ DOMAIN after.pem =
                        DOMAIN playerEntityManager \cup { normalizeAddress(a) }
                 /\ MapHas(after.stores["PlayerIdentityData"].data, entity)
                 /\ after.stores["PlayerIdentityData"].data[entity] =
                        [address |-> normalizeAddress(a), isGuest |-> TRUE]
            ELSE after.pem = playerEntityManager

\* with no id of the range free, each of the five events from a peer without
\* entity is dropped: the handler leaves the controller as it is
DroppedWhenExhausted ==
    \A a \in { << "A", "1" >>, << "b", "2" >> } :
        Sightings([Ctl EXCEPT !.pem = FullTable], a) = { [Ctl EXCEPT !.pem = FullTable] }

\* C33: the first connect, position, movement, profile announcement or chat
\* of a peer creates its entity with an initial PlayerIdentityData of the
\* normalized address and isGuest true, later events of that peer allocate
\* nothing, and with the allocator out of ids the event is dropped with no
\* component write.
C33_EntityOnFirstSighting == FirstSightingAllocates /\ DroppedWhenExhausted

\* two peers are known, "A1" under its normalized address with its first
\* identity, the other by a position, and no fetch is in flight
C33_Witness ==
    /\ DOMAIN playerEntityManager = { << "a", "1" >>, << "b", "2" >> }
    /\ stores["PlayerIdentityData"].data[playerEntityManager[<< "a", "1" >>]] =
           [address |-> << "a", "1" >>, isGuest |-> TRUE]
    /\ MapHas(stores["Transform"].data, playerEntityManager[<< "b", "2" >>])
    /\ ~MapHas(stores["Transform"].data, playerEntityManager[<< "a", "1" >>])
    /\ pendingFetches = EmptyMap


\* C34: a position packet makes the wrapper call setVoicePosition(sender,
\* position) of its transport exactly once and before it emits the position
\* event; a packet of any other variant, or without one, makes no such call
\* and leaves the transport as it is.
C34_VoicePositionOncePerPosition ==
    \A address \in RawAddresses, packet \in Packets :
        LET r == handleMessage(wrapper, address, packet)
            voiceCalls == { i \in DOMAIN r.effects : r.effects[i].op = "setVoicePosition" }
            positionEvents == { i \in DOMAIN r.effects :
                                 /\ r.effects[i].op = "emit"
                                 /\ r.effects[i].event.channel = "position" }
        IN  IF packet.message # Undefined /\ packet.message.case = "position"
            THEN /\ Cardinality(voiceCalls) = 1
                 /\ \A i \in voiceCalls :
                        /\ r.effects[i] = VoiceCall(address, packet.message.payload)
                        /\ \A j \in positionEvents : i < j
                 /\ Cardinality(positionEvents) = 1
                 /\ r.wrapper.transport.voicePosition =
                        [address |-> address, position |-> packet.message.payload]
            ELSE /\ voiceCalls = {}
                 /\ r.wrapper.transport = wrapper.transport

\* a position packet of "A1" was just handled: the transport holds its voice
\* position and the position event is out
C34_Witness ==
    /\ wrapper.transport.voicePosition = [address |-> << "A", "1" >>, position |-> "d2"]
    /\ emitted = << [channel |-> "position", address |-> << "A", "1" >>, data |-> "d2"] >>
    /\ wrapper.state = "CONNECTED"


\* C35: when transport.connect() fails, connect() of the wrapper does not
\* reject: the state becomes DISCONNECTED and exactly one DISCONNECTION event
\* is emitted, with kicked false and the error; from then on the state is
\* never CONNECTED and a further connect() changes nothing.
C35_FailedConnectDisconnects ==
    [][/\ \A e \in TransportErrors :
              ConnectRejectedWith(e) =>
                  /\ raised' = ""
                  /\ wrapper'.state = "DISCONNECTED"
                  /\ emitted' = << [channel |-> "DISCONNECTION", error |-> e,
                                    kicked |-> FALSE] >>
       /\ (\E i \in DOMAIN wrapper.history : wrapper.history[i] = "DISCONNECTED") =>
              /\ wrapper'.state # "CONNECTED"
              /\ Connect => wrapper' = wrapper]_vars

\* the connection attempt has just failed with "e2"
C35_Witness ==
    /\ wrapper.state = "DISCONNECTED"
    /\ wrapper.history = << "NONE", "CONNECTING", "DISCONNECTED" >>
    /\ wrapper.transport.connects = 1
    /\ emitted = << [channel |-> "DISCONNECTION", error |-> "e2", kicked |-> FALSE] >>


\* C36: the PlayerIdentityData, AvatarBase and AvatarEquippedData values
\* stored for an entity a peer holds are those of that peer: the identity
\* carries its address and the appearance was copied from its profile.
C36_ValuesBelongToOwner ==
    \A k \in DOMAIN playerEntityManager :
        LET entity == playerEntityManager[k]
            has(c) == MapHas(stores[c].data, entity)
        IN  /\ has("PlayerIdentityData") =>
                   normalizeAddress(stores["PlayerIdentityData"].data[entity].address) = k
            /\ has("AvatarBase") =>
                   normalizeAddress(stores["AvatarBase"].data[entity].name) = k
            /\ has("AvatarEquippedData") =>
                   normalizeAddress(stores["AvatarEquippedData"].data[entity].wearablesOf) = k


\* C37: dispose() of one subscription leaves the allocation table and the
\* profile cache of the controller, and every other subscription, as they
\* were.
C37_SubscriptionDisposeIsLocal ==
    [][\A s \in SubscriptionIds :
           SubscriptionDisposeOf(s) =>
               /\ playerEntityManager' = playerEntityManager
               /\ profileCache' = profileCache
               /\ \A t \in DOMAIN subscriptions \ { s } :
                      /\ MapHas(subscriptions', t)
                      /\ subscriptions'[t] = subscriptions[t]]_vars


\* the version of the avatar the system holds, 0 when it holds none
StoredVersion == IF profileSystem.currentAvatar = Undefined THEN 0
                 ELSE profileSystem.currentAvatar.version

\* C38: every setAvatar call stores the avatar it is given with the version
\* of the stored avatar plus one, 1 for the first call, whatever version the
\* given avatar carries; so of two announcements sent, the later carries a
\* profileVersion at least that of the earlier.
C38_VersionIncreases ==
    [][/\ \A avatar \in Avatars :
              SetAvatarTo(avatar) =>
                  profileSystem'.currentAvatar =
                      [avatar EXCEPT !.version = StoredVersion + 1]
       /\ \A i, j \in DOMAIN calls' :
              (i < j /\ calls'[i].sent /\ calls'[j].sent) =>
                  calls'[i].version <= calls'[j].version]_vars

\* version 1 was announced, then the avatar was set again with a version of
\* its own, and version 2 was announced
C38_Witness ==
    /\ profileSystem.currentAvatar # Undefined
    /\ profileSystem.currentAvatar.version = 2
    /\ \E i, j \in DOMAIN calls :
          /\ i < j
          /\ calls[i].sent /\ calls[i].version = 1
          /\ calls[j].sent /\ calls[j].version = 2


\* C39: whatever MeshCollider changes are applied to the entity, no collider
\* mesh made for it has had dispose() called more than once, and a change
\* that removes the value leaves the entity without applied meshCollider.
C39_ColliderDisposedOnce ==
    [][/\ \A i \in DOMAIN sceneEntity'.meshes : sceneEntity'.meshes[i].disposed <= 1
       /\ MeshColliderChangedTo("LastWriteWinElementSet", NullValue) =>
              sceneEntity'.appliedComponents.meshCollider = Undefined]_vars

====
